---- MODULE Spec2Model ----
(***************************************************************************)
(* Model of shuldan/config: the value tree, deep copy, merge, dotted-path  *)
(* resolution, template processing and the Handle (Config) life cycle.     *)
(*                                                                         *)
(* Go maps and slices are reference values.  The model keeps an explicit   *)
(* heap: a sequence of objects, an address being an index into it.  A      *)
(* value is a tagged pair:                                                 *)
(*    <<"null", 0>>   nil                                                  *)
(*    <<"int", n>>    an int                                               *)
(*    <<"str", s>>    a string, s a sequence of one-character strings      *)
(*    <<"ref", a>>    a map or slice living at heap address a              *)
(* An object is <<kind, content>> with kind                                *)
(*    "map"   map[string]any : content a function from strings to values   *)
(*    "seq"   []any          : content a sequence of values                *)
(*    "strs"  []string       : content a sequence of <<"str", s>>          *)
(*    "ints"  []int          : content a sequence of <<"int", n>>          *)
(*    "floats" []float64     : content a sequence of <<"float", n>>        *)
(*    "anymap" map[any]any   : content a function from strings to values   *)
(*                             (the entries whose key is a string)         *)
(* A tree (no heap) uses the same tags with the content inline:            *)
(*    <<"map", f>>, <<"seq", s>>, <<"strs", s>>, <<"ints", s>>, ...        *)
(***************************************************************************)
EXTENDS Integers, Sequences, FiniteSets, TLC

VARIABLES
    heap,      \* the Go heap: sequence of objects
    cfgs,      \* the Handles (Config) built so far, in order
    held,      \* the references the caller holds, each with where it came from
    steps,     \* number of calls and caller writes that changed the state
    loaded,    \* the record of a call of New: loaders, what they returned, error
    merged,    \* the record of a call of mergeMaps: operands before the call
    calls,     \* per thread: the call it runs on the shared Handle
    frames,    \* per stack frame of find: its local variables
    got        \* the last accessor or Unmarshal call made alone: inputs and result

vars == <<heap, cfgs, held, steps, loaded, merged, calls, frames, got>>

----------------------------------------------------------------------------
(* Bounds of the model. *)

MaxSteps == 3
MaxLoaders == 3
NThreads == 2

----------------------------------------------------------------------------
(* Strings. *)

Dot == "."

(* strings.Split(s, "."): the segments between the dots. *)
RECURSIVE SplitFrom(_, _, _)
SplitFrom(s, i, cur) ==
    IF i > Len(s) THEN <<cur>>
    ELSE IF s[i] = Dot THEN <<cur>> \o SplitFrom(s, i + 1, <<>>)
    ELSE SplitFrom(s, i + 1, Append(cur, s[i]))

Split(s) == SplitFrom(s, 1, <<>>)

(* strings.Contains(s, sub) *)
Contains(s, sub) ==
    \E i \in 1..(Len(s) - Len(sub) + 1) : SubSeq(s, i, i + Len(sub) - 1) = sub

----------------------------------------------------------------------------
(* Values and the heap. *)

Null == <<"null", 0>>
IntV(n) == <<"int", n>>
StrV(s) == <<"str", s>>
Ref(a) == <<"ref", a>>

IsRef(v) == v[1] = "ref"
IsMapRef(h, v) == v[1] = "ref" /\ h[v[2]][1] = "map"
IsAnyMapRef(h, v) == v[1] = "ref" /\ h[v[2]][1] = "anymap"

EmptyMap == <<"map", <<>>>>

(* make(...): a fresh object at the next address. *)
Alloc(h, obj) == [h |-> Append(h, obj), a |-> Len(h) + 1]

(* m[k] = v on the map object at address a. *)
Put(f, k, v) ==
    IF k \in DOMAIN f THEN [f EXCEPT ![k] = v]
    ELSE [x \in (DOMAIN f) \cup {k} |-> IF x = k THEN v ELSE f[x]]

SetKey(h, a, k, v) == [h EXCEPT ![a] = <<"map", Put(h[a][2], k, v)>>]

(* s[i] = v on the slice object at address a. *)
SetElem(h, a, i, v) == [h EXCEPT ![a] = <<h[a][1], [h[a][2] EXCEPT ![i] = v]>>]

(* The order in which a range loop visits the keys of a map when the      *)
(* result does not depend on it.                                          *)
PickKey(ks) == CHOOSE k \in ks : TRUE

(* The tree (content, no addresses) a value denotes in heap h. *)
RECURSIVE Abs(_, _)
Abs(h, v) ==
    IF IsRef(v)
    THEN LET o == h[v[2]]
         IN  <<o[1], [k \in DOMAIN o[2] |-> Abs(h, o[2][k])]>>
    ELSE v

(* The caller (or a loader) builds tree t out of fresh objects. *)
RECURSIVE Build(_, _), BuildInto(_, _, _, _)
Build(h, t) ==
    IF t[1] \in {"map", "seq", "strs", "ints", "floats", "anymap"}
    THEN LET al == Alloc(h, <<t[1], t[2]>>)
         IN  [h |-> BuildInto(al.h, al.a, t[2], DOMAIN t[2]), v |-> Ref(al.a)]
    ELSE [h |-> h, v |-> t]

BuildInto(h, a, c, ks) ==
    IF ks = {} THEN h
    ELSE LET k == PickKey(ks)
             r == Build(h, c[k])
         IN  BuildInto([r.h EXCEPT ![a] = <<r.h[a][1], [r.h[a][2] EXCEPT ![k] = r.v]>>],
                       a, c, ks \ {k})

(* The addresses reachable from the addresses in as. *)
RefsOf(h, a) == {h[a][2][k][2] : k \in {x \in DOMAIN h[a][2] : IsRef(h[a][2][x])}}

RECURSIVE Reach(_, _)
Reach(h, as) ==
    LET more == as \cup UNION {RefsOf(h, a) : a \in as}
    IN  IF more = as THEN as ELSE Reach(h, more)

----------------------------------------------------------------------------
(* utils.go *)

RECURSIVE deepCopyValue(_, _), CopyKeys(_, _, _, _)

(* The body of the loops of deepCopyMap and of deepCopyValue's []any case: *)
(* dst[k] = deepCopyValue(src[k]) for the keys (indices) in ks.            *)
CopyKeys(h, src, dst, ks) ==
    IF ks = {} THEN h
    ELSE LET k == PickKey(ks)
             r == deepCopyValue(h, h[src][2][k])
         IN  CopyKeys([r.h EXCEPT ![dst] = <<r.h[dst][1], Put(r.h[dst][2], k, r.v)>>],
                      src, dst, ks \ {k})

deepCopyMap(h, src) ==
    LET al == Alloc(h, EmptyMap)
    IN  [h |-> CopyKeys(al.h, src, al.a, DOMAIN h[src][2]), a |-> al.a]

(* A deepCopyValue whose []any case copies all the elements but the last. *)
deepCopyValueShort(h, v) ==
    IF ~IsRef(v) THEN [h |-> h, v |-> v]
    ELSE CASE h[v[2]][1] = "map" ->
                LET r == deepCopyMap(h, v[2]) IN [h |-> r.h, v |-> Ref(r.a)]
           [] h[v[2]][1] = "seq" ->
                LET n == Len(h[v[2]][2])
                    al == Alloc(h, <<"seq", SubSeq(h[v[2]][2], 1, n - 1)>>)
                IN  [h |-> CopyKeys(al.h, v[2], al.a, 1..(n - 1)), v |-> Ref(al.a)]
           [] OTHER -> [h |-> h, v |-> v]

deepCopyValue(h, v) ==
    IF ~IsRef(v) THEN [h |-> h, v |-> v]
    ELSE CASE h[v[2]][1] = "map" ->
                LET r == deepCopyMap(h, v[2]) IN [h |-> r.h, v |-> Ref(r.a)]
           [] h[v[2]][1] = "seq" ->
                LET al == Alloc(h, <<"seq", h[v[2]][2]>>)
                IN  [h |-> CopyKeys(al.h, v[2], al.a, DOMAIN h[v[2]][2]), v |-> Ref(al.a)]
           [] h[v[2]][1] = "strs" ->
                LET al == Alloc(h, <<"strs", h[v[2]][2]>>)
                IN  [h |-> al.h, v |-> Ref(al.a)]
           [] OTHER -> [h |-> h, v |-> v]

(* A merge that assigns every key of src without descending: what        *)
(* mergeMaps would be without its recursive case.                          *)
RECURSIVE AssignKeys(_, _, _, _)
AssignKeys(h, dst, src, ks) ==
    IF ks = {} THEN h
    ELSE LET k == PickKey(ks)
         IN  AssignKeys(SetKey(h, dst, k, h[src][2][k]), dst, src, ks \ {k})

mergeShallow(h, dst, src) == AssignKeys(h, dst, src, DOMAIN h[src][2])

RECURSIVE mergeMaps(_, _, _), MergeKeys(_, _, _, _)
MergeKeys(h, dst, src, ks) ==
    IF ks = {} THEN h
    ELSE LET k == PickKey(ks)
             v == h[src][2][k]
         IN  IF /\ IsMapRef(h, v)
                /\ k \in DOMAIN h[dst][2]
                /\ IsMapRef(h, h[dst][2][k])
             THEN MergeKeys(mergeMaps(h, h[dst][2][k][2], v[2]), dst, src, ks \ {k})
             ELSE MergeKeys(SetKey(h, dst, k, v), dst, src, ks \ {k})

mergeMaps(h, dst, src) == MergeKeys(h, dst, src, DOMAIN h[src][2])

(* setNested(m, key, value), m the map at address m; keys = Split(key),   *)
(* the loop from index i on, with current at address cur.                 *)
RECURSIVE SetNestedFrom(_, _, _, _, _)
SetNestedFrom(h, cur, keys, i, value) ==
    LET k == keys[i]
    IN  IF i = Len(keys) THEN SetKey(h, cur, k, value)
        ELSE LET h1 == IF k \notin DOMAIN h[cur][2]
                       THEN LET al == Alloc(h, EmptyMap) IN SetKey(al.h, cur, k, Ref(al.a))
                       ELSE h
             IN  IF IsMapRef(h1, h1[cur][2][k])
                 THEN SetNestedFrom(h1, h1[cur][2][k][2], keys, i + 1, value)
                 ELSE LET al == Alloc(h1, EmptyMap)
                      IN  SetNestedFrom(SetKey(al.h, cur, k, Ref(al.a)), al.a, keys, i + 1, value)

setNested(h, m, key, value) == SetNestedFrom(h, m, Split(key), 1, value)

(* expandDotKeys(flat), the range loop visiting the keys in the order ord *)
(* (Go leaves the order of a map's keys unspecified).                     *)
RECURSIVE ExpandFrom(_, _, _, _, _)
ExpandFrom(h, out, flat, ord, i) ==
    IF i > Len(ord) THEN h
    ELSE ExpandFrom(setNested(h, out, ord[i], h[flat][2][ord[i]]), out, flat, ord, i + 1)

expandDotKeys(h, flat, ord) ==
    LET al == Alloc(h, EmptyMap)
    IN  [h |-> ExpandFrom(al.h, al.a, flat, ord, 1), a |-> al.a]

----------------------------------------------------------------------------
(* template.go *)

Open == <<"{", "{">>
Close == <<"}", "}">>

(* render(input): text/template parses and executes the input.  The       *)
(* model's templates are "{{e}}" (a call of env, which yields "v") and     *)
(* "{{!}}" (which the parser rejects).                                     *)
RenderChar(c) == IF c = "e" THEN "v" ELSE c

render(input) ==
    IF Contains(input, <<"!">>)
    THEN [err |-> TRUE, s |-> <<>>]
    ELSE LET body == SelectSeq(input, LAMBDA c : c \notin {"{", "}"})
         IN  [err |-> FALSE, s |-> [i \in 1..Len(body) |-> RenderChar(body[i])]]

IsTemplate(val) == Contains(val, Open) /\ Contains(val, Close)

Digit == <<"0", "1", "2", "3", "4", "5", "6", "7", "8", "9">>

(* childPath of a map entry and of a slice element (index from 0). *)
MapChildPath(path, k) == IF path = <<>> THEN k ELSE path \o <<Dot>> \o k
SeqChildPath(path, i) == path \o <<"[", Digit[i], "]">>

(* processValue(v, path) when no render fails: the processed value, built *)
(* of fresh maps and slices.                                               *)
RECURSIVE processValue(_, _, _), ProcKeys(_, _, _, _, _)
ProcKeys(h, src, dst, path, ks) ==
    IF ks = {} THEN h
    ELSE LET k == PickKey(ks)
             childPath == IF h[src][1] = "map" THEN MapChildPath(path, k)
                          ELSE SeqChildPath(path, k)
             r == processValue(h, h[src][2][k], childPath)
         IN  ProcKeys([r.h EXCEPT ![dst] = <<r.h[dst][1], Put(r.h[dst][2], k, r.v)>>],
                      src, dst, path, ks \ {k})

processValue(h, v, path) ==
    CASE v[1] = "str" ->
            IF IsTemplate(v[2]) THEN [h |-> h, v |-> StrV(render(v[2]).s)]
            ELSE [h |-> h, v |-> v]
      [] IsRef(v) /\ h[v[2]][1] = "map" ->
            LET al == Alloc(h, EmptyMap)
            IN  [h |-> ProcKeys(al.h, v[2], al.a, path, DOMAIN h[v[2]][2]), v |-> Ref(al.a)]
      [] IsRef(v) /\ h[v[2]][1] = "seq" ->
            LET al == Alloc(h, <<"seq", h[v[2]][2]>>)
            IN  [h |-> ProcKeys(al.h, v[2], al.a, path, DOMAIN h[v[2]][2]), v |-> Ref(al.a)]
      [] OTHER -> [h |-> h, v |-> v]

(* The paths processValue(v, path) can report in its error: a map is      *)
(* ranged over in an unspecified order, so the error of any failing entry  *)
(* can be the one returned; a slice is ranged over in index order, so the  *)
(* first failing element's is.  Empty when processValue succeeds.          *)
(* A template pass that drops render errors (result, _ := render(val)). *)
NoErrPaths(h, v, path) == {}

RECURSIVE ErrPaths(_, _, _)
ErrPaths(h, v, path) ==
    CASE v[1] = "str" ->
            IF IsTemplate(v[2]) /\ render(v[2]).err THEN {path} ELSE {}
      [] IsRef(v) /\ h[v[2]][1] = "map" ->
            UNION {ErrPaths(h, h[v[2]][2][k], MapChildPath(path, k)) : k \in DOMAIN h[v[2]][2]}
      [] IsRef(v) /\ h[v[2]][1] = "seq" ->
            LET c == h[v[2]][2]
                bad == {i \in DOMAIN c : ErrPaths(h, c[i], SeqChildPath(path, i)) # {}}
            IN  IF bad = {} THEN {}
                ELSE LET i == CHOOSE x \in bad : \A y \in bad : x <= y
                     IN  ErrPaths(h, c[i], SeqChildPath(path, i))
      [] OTHER -> {}

----------------------------------------------------------------------------
(* config.go *)

(* c.find(path): <<value, found>> *)
RECURSIVE FindFrom(_, _, _, _)

(* A walk that stops at the first node it cannot descend into and returns *)
(* that node as found.                                                     *)
FindFromPartial(h, current, keys, i) ==
    IF i > Len(keys) THEN <<current, TRUE>>
    ELSE IF (IsMapRef(h, current) \/ IsAnyMapRef(h, current))
            /\ keys[i] \in DOMAIN h[current[2]][2]
         THEN FindFrom(h, h[current[2]][2][keys[i]], keys, i + 1)
         ELSE <<current, TRUE>>

FindFrom(h, current, keys, i) ==
    IF i > Len(keys) THEN <<current, TRUE>>
    ELSE IF current = Null THEN <<Null, FALSE>>
    ELSE IF IsMapRef(h, current) \/ IsAnyMapRef(h, current)
         THEN IF keys[i] \in DOMAIN h[current[2]][2]
              THEN FindFrom(h, h[current[2]][2][keys[i]], keys, i + 1)
              ELSE <<Null, FALSE>>
         ELSE <<Null, FALSE>>

find(h, values, path) == FindFrom(h, Ref(values), Split(path), 1)

(* What a caller sees when it resolves path on the Handle rooted at       *)
(* values: the tree found and the found flag.                             *)
Resolve(h, values, path) ==
    LET r == find(h, values, path) IN <<Abs(h, r[1]), r[2]>>

KA == <<"a">>
KB == <<"b">>
Keys == {KA, KB}
Paths == Keys \cup {k1 \o <<Dot>> \o k2 : k1 \in Keys, k2 \in Keys}

Table(h, values) == [p \in Paths |-> Resolve(h, values, p)]

----------------------------------------------------------------------------
(* The inputs. *)

TOk == StrV(<<"{", "{", "e", "}", "}">>)
TBad == StrV(<<"{", "{", "!", "}", "}">>)

MapB(v) == <<"map", KB :> v>>
MapA(v) == <<"map", KA :> v>>
MapAB(v, w) == <<"map", KA :> v @@ KB :> w>>

(* The maps a caller hands to FromMap. *)
ArgVals ==
    {Null, IntV(1),
     MapB(IntV(1)),
     <<"seq", <<IntV(1)>>>>,
     <<"seq", <<MapB(IntV(1))>>>>,
     <<"strs", <<StrV(<<"x">>)>>>>,
     <<"ints", <<IntV(1)>>>>}

ArgTrees ==
    {<<"map", f>> : f \in
        {g \in UNION {[K -> ArgVals] : K \in SUBSET Keys} :
            KB \in DOMAIN g => g[KB] = IntV(1)}}

(* What the caller writes into an object it holds. *)
WriteVal(kind) == IF kind = "strs" THEN StrV(<<"y">>) ELSE IntV(7)

----------------------------------------------------------------------------
(* The state. *)

NoErr == <<"none", 0>>

Cfg(h, values, kind, of) ==
    [values |-> values, kind |-> kind, of |-> of, tab |-> Table(h, values)]

NotLoaded ==
    [done |-> FALSE, ls |-> <<>>, outs |-> <<>>, invoked |-> 0,
     err |-> NoErr, tree |-> Null]

NotMerged ==
    [done |-> FALSE, dst |-> 0, src |-> 0, before |-> Null, arg |-> Null]

Threads == 1..NThreads

Idle == [pc |-> "idle", op |-> "", key |-> <<>>, res |-> Null]
NoFrame == [cur |-> Null, i |-> 0, ok |-> FALSE]
NoCall == [op |-> ""]

Init ==
    /\ heap = <<>>
    /\ cfgs = <<>>
    /\ held = {}
    /\ steps = 0
    /\ loaded = NotLoaded
    /\ merged = NotMerged
    /\ calls = [t \in Threads |-> Idle]
    /\ frames = [t \in Threads |-> NoFrame]
    /\ got = NoCall

----------------------------------------------------------------------------
(* The life cycle of Handles: the constructors and accessors of config.go *)
(* together with what the caller does with the values it gets back.       *)

(* FromMap(values): the caller builds the argument and keeps it. *)
FromMap(t) ==
    /\ cfgs = <<>>
    /\ steps < MaxSteps
    /\ LET b == Build(heap, t)
           r == deepCopyMap(b.h, b.v[2])
       IN  /\ heap' = r.h
           /\ cfgs' = Append(cfgs, Cfg(r.h, r.a, "FromMap", 0))
           /\ held' = held \cup {[tag |-> "arg", cfg |-> 1, a |-> b.v[2]]}
    /\ steps' = steps + 1
    /\ UNCHANGED <<loaded, merged, calls, frames, got>>

(* c.Has(key) *)
Has(c, key) ==
    /\ c \in DOMAIN cfgs
    /\ find(heap, cfgs[c].values, key)[2] \in BOOLEAN
    /\ UNCHANGED vars

(* c.Get(key): the caller receives the value found and keeps it when it   *)
(* is a map or a slice.                                                    *)
Get(c, key) ==
    /\ c \in DOMAIN cfgs
    /\ steps < MaxSteps
    /\ LET r == find(heap, cfgs[c].values, key)
       IN  /\ IsRef(r[1])
           /\ held' = held \cup {[tag |-> "Get", cfg |-> c, a |-> r[1][2]]}
    /\ steps' = steps + 1
    /\ UNCHANGED <<heap, cfgs, loaded, merged, calls, frames, got>>

(* c.GetMap(key), when it returns a map. *)
GetMap(c, key) ==
    /\ c \in DOMAIN cfgs
    /\ steps < MaxSteps
    /\ LET r == find(heap, cfgs[c].values, key)
       IN  /\ r[2]
           /\ IsMapRef(heap, r[1])
           /\ LET cp == deepCopyMap(heap, r[1][2])
              IN  /\ heap' = cp.h
                  /\ held' = held \cup {[tag |-> "GetMap", cfg |-> c, a |-> cp.a]}
    /\ steps' = steps + 1
    /\ UNCHANGED <<cfgs, loaded, merged, calls, frames, got>>

(* c.GetSub(key), when it returns a Handle. *)
GetSub(c, key) ==
    /\ c \in DOMAIN cfgs
    /\ steps < MaxSteps
    /\ LET r == find(heap, cfgs[c].values, key)
       IN  /\ r[2]
           /\ IsMapRef(heap, r[1])
           /\ LET cp == deepCopyMap(heap, r[1][2])
              IN  /\ heap' = cp.h
                  /\ cfgs' = Append(cfgs, Cfg(cp.h, cp.a, "GetSub", c))
    /\ steps' = steps + 1
    /\ UNCHANGED <<held, loaded, merged, calls, frames, got>>

(* c.All() *)
All(c) ==
    /\ c \in DOMAIN cfgs
    /\ steps < MaxSteps
    /\ LET cp == deepCopyMap(heap, cfgs[c].values)
       IN  /\ heap' = cp.h
           /\ held' = held \cup {[tag |-> "All", cfg |-> c, a |-> cp.a]}
    /\ steps' = steps + 1
    /\ UNCHANGED <<cfgs, loaded, merged, calls, frames, got>>

(* The override maps a caller passes: flat, with dotted keys; a value is  *)
(* a scalar, a fresh map, or (under key "a") a map the caller already      *)
(* holds.  No input is cyclic.                                             *)
KAB == KA \o <<Dot>> \o KB
OvKeySets == {{KA}, {KB}, {KAB}, {KA, KAB}}
OvVals(h, hs) ==
    {IntV(3), MapB(IntV(3))}
        \cup {Ref(e.a) : e \in {x \in hs : h[x.a][1] = "map"}}
OvMaps(h, hs) ==
    {<<"map", f>> : f \in
        {g \in UNION {[K -> OvVals(h, hs)] : K \in OvKeySets} :
            \A k \in DOMAIN g : IsRef(g[k]) => k = KA}}

Perms(S) ==
    {s \in [1..Cardinality(S) -> S] : \A i, j \in DOMAIN s : i # j => s[i] # s[j]}

(* c.WithOverrides(overrides); ord is the order in which expandDotKeys    *)
(* ranges over the keys of overrides.                                      *)
WithOverrides(c, o, ord) ==
    /\ c \in DOMAIN cfgs
    /\ steps < MaxSteps
    /\ LET b == Build(heap, o)
           cp == deepCopyMap(b.h, cfgs[c].values)
           expanded == expandDotKeys(cp.h, b.v[2], ord)
           h == mergeMaps(expanded.h, cp.a, expanded.a)
       IN  /\ heap' = h
           /\ cfgs' = Append(cfgs, Cfg(h, cp.a, "WithOverrides", c))
           /\ held' = held \cup {[tag |-> "overrides", cfg |-> c, a |-> b.v[2]]}
    /\ steps' = steps + 1
    /\ UNCHANGED <<loaded, merged, calls, frames, got>>

(* The keys of a map and the indices of a slice the caller writes to. *)
WriteSlots(obj) == IF obj[1] = "map" THEN Keys ELSE DOMAIN obj[2]

(* The caller writes into an object it reaches through reference e:       *)
(* m[k] = v on a map, s[k] = v on a slice.                                 *)
CallerWrite(e, a, k) ==
    /\ steps < MaxSteps
    /\ e \in held
    /\ a \in Reach(heap, {e.a})
    /\ k \in WriteSlots(heap[a])
    /\ heap' = IF heap[a][1] = "map"
               THEN SetKey(heap, a, k, WriteVal("map"))
               ELSE SetElem(heap, a, k, WriteVal(heap[a][1]))
    /\ steps' = steps + 1
    /\ UNCHANGED <<cfgs, held, loaded, merged, calls, frames, got>>

Next ==
    \/ \E t \in ArgTrees : FromMap(t)
    \/ \E c \in DOMAIN cfgs, key \in Paths : Has(c, key)
    \/ \E c \in DOMAIN cfgs, key \in Paths : Get(c, key)
    \/ \E c \in DOMAIN cfgs, key \in Paths : GetMap(c, key)
    \/ \E c \in DOMAIN cfgs, key \in Paths : GetSub(c, key)
    \/ \E c \in DOMAIN cfgs : All(c)
    \/ \E c \in DOMAIN cfgs : \E o \in OvMaps(heap, held) :
           \E ord \in Perms(DOMAIN o[2]) : WithOverrides(c, o, ord)
    \/ \E e \in held : \E a \in Reach(heap, {e.a}) : \E k \in WriteSlots(heap[a]) :
           CallerWrite(e, a, k)

Spec == Init /\ [][Next]_vars

----------------------------------------------------------------------------
(* New: the loaders, the merge loop and the template pass.                *)

(* What a loader's Load() returns: (cfg, nil) or (nil, err).  Ranging     *)
(* over a nil map visits nothing, so the nil map reads as the empty one.   *)
Loads(t) == [cfg |-> t, err |-> FALSE]
LoadFails == [cfg |-> EmptyMap, err |-> TRUE]

(* A loop that never takes the error branch. *)
NeverFailed(out) == FALSE

(* err != nil after loader.Load() *)
Failed(out) == out.err

(* A loop that ranges over the loaders from the last to the first. *)
LoaderAtReversed(ls, i) == ls[Len(ls) + 1 - i]

(* for _, loader := range b.loaders: the loader of the i-th iteration. *)
LoaderAt(ls, i) == ls[i]

(* The error New returns when the i-th loader fails: that loader's own.   *)
LoadError(i) == <<"load", i>>
(* The error New returns when the template pass fails at path.            *)
RenderError(path) == <<"render", path>>

(* The loop of New over b.loaders from iteration i on; values is the      *)
(* address of the accumulated map, outs the maps returned so far.          *)
RECURSIVE LoadFrom(_, _, _, _, _)
LoadFrom(h, values, ls, i, outs) ==
    IF i > Len(ls)
    THEN [h |-> h, outs |-> outs, err |-> NoErr, invoked |-> i - 1]
    ELSE LET out == LoaderAt(ls, i)
         IN  IF Failed(out)
             THEN [h |-> h, outs |-> outs, err |-> LoadError(i), invoked |-> i]
             ELSE LET b == Build(h, out.cfg)
                  IN  LoadFrom(mergeMaps(b.h, values, b.v[2]), values, ls, i + 1,
                               Append(outs, [root |-> b.v[2], tree |-> out.cfg]))

LoaderTrees ==
    {EmptyMap,
     MapA(IntV(1)), MapA(IntV(2)), MapB(IntV(1)),
     MapA(MapB(IntV(1))), MapA(MapB(IntV(2))), MapA(MapA(IntV(2))),
     MapA(TOk), MapA(TBad), MapA(MapB(TBad)),
     MapA(<<"seq", <<TOk, TBad>>>>),
     MapA(<<"seq", <<MapB(TBad)>>>>),
     MapAB(TBad, TBad)}

LoaderOuts == {Loads(t) : t \in LoaderTrees} \cup {LoadFails}

LoaderSeqs == UNION {[1..n -> LoaderOuts] : n \in 0..MaxLoaders}

(* New(WithLoader(ls[1]), ..., WithLoader(ls[n])) *)
New(ls) ==
    /\ ~loaded.done
    /\ LET al == Alloc(heap, EmptyMap)
           r == LoadFrom(al.h, al.a, ls, 1, <<>>)
           bad == ErrPaths(r.h, Ref(al.a), <<>>)
           p == processValue(r.h, Ref(al.a), <<>>)
           rec == [done |-> TRUE, ls |-> ls, outs |-> r.outs, invoked |-> r.invoked,
                   err |-> r.err, tree |-> Abs(r.h, Ref(al.a))]
       IN  IF r.err # NoErr
           THEN /\ heap' = r.h
                /\ loaded' = rec
                /\ UNCHANGED cfgs
           ELSE IF bad # {}
           THEN /\ heap' = r.h
                /\ \E path \in bad : loaded' = [rec EXCEPT !.err = RenderError(path)]
                /\ UNCHANGED cfgs
           ELSE /\ heap' = p.h
                /\ loaded' = rec
                /\ cfgs' = Append(cfgs, Cfg(p.h, p.v[2], "New", 0))
    /\ UNCHANGED <<held, steps, merged, calls, frames, got>>

(* New is called once. *)
NextNew == ~loaded.done /\ \E ls \in LoaderSeqs : New(ls)

SpecNew == Init /\ [][NextNew]_vars

----------------------------------------------------------------------------
(* mergeMaps on its own. *)

MergeVals ==
    {Null, IntV(1), MapB(IntV(1)), MapA(IntV(2)),
     MapB(MapA(IntV(1))), MapB(MapB(IntV(2)))}

MergeTrees ==
    {<<"map", f>> : f \in
        {g \in UNION {[K -> MergeVals] : K \in SUBSET Keys} :
            KB \in DOMAIN g => g[KB] = IntV(1)}}

(* mergeMaps(dst, src) on two freshly built maps. *)
MergeOp(d, s) ==
    /\ ~merged.done
    /\ LET b1 == Build(heap, d)
           b2 == Build(b1.h, s)
       IN  /\ heap' = mergeMaps(b2.h, b1.v[2], b2.v[2])
           /\ merged' = [done |-> TRUE, dst |-> b1.v[2], src |-> b2.v[2],
                         before |-> d, arg |-> s]
    /\ UNCHANGED <<cfgs, held, steps, loaded, calls, frames, got>>

(* mergeMaps is called once. *)
NextMerge == ~merged.done /\ \E d \in MergeTrees, s \in MergeTrees : MergeOp(d, s)

SpecMerge == Init /\ [][NextMerge]_vars

----------------------------------------------------------------------------
(* Several threads reading one Handle.  Each thread makes one call; find  *)
(* advances one loop iteration at a time, so the iterations of different   *)
(* threads interleave.  The copy GetMap, GetSub and All make reads the     *)
(* Handle's tree and writes only objects no other thread can reach.        *)

ConcTrees ==
    {MapAB(MapB(IntV(1)), IntV(1)),
     MapA(<<"seq", <<IntV(1)>>>>),
     MapAB(Null, IntV(1))}

ConcCalls ==
    {<<"Has", KAB>>, <<"Get", KAB>>, <<"Get", KB>>, <<"Get", KA>>,
     <<"GetInt", KAB>>, <<"Unmarshal", KA>>,
     <<"GetMap", KA>>, <<"GetSub", KA>>, <<"All", <<>>>>}

InitConc ==
    /\ \E t \in ConcTrees :
          LET b == Build(<<>>, t)
              r == deepCopyMap(b.h, b.v[2])
          IN  /\ heap = r.h
              /\ cfgs = <<Cfg(r.h, r.a, "FromMap", 0)>>
    /\ held = {}
    /\ steps = 0
    /\ loaded = NotLoaded
    /\ merged = NotMerged
    /\ calls = [t \in Threads |-> Idle]
    /\ frames = [t \in Threads |-> NoFrame]
    /\ got = NoCall

(* One frame shared by all threads: current kept in the Handle. *)
SharedFrame(t) == 1

(* The stack frame holding the locals (keys, current) of thread t's call  *)
(* of find: its own.                                                       *)
Frame(t) == t

(* Thread t calls op(key) on the Handle. *)
Call(t, op, key) ==
    /\ calls[t].pc = "idle"
    /\ calls' = [calls EXCEPT ![t] =
                    [pc |-> IF op = "All" THEN "found" ELSE "find",
                     op |-> op, key |-> key, res |-> Null]]
    /\ frames' = [frames EXCEPT ![Frame(t)] =
                    [cur |-> Ref(cfgs[1].values), i |-> 1, ok |-> TRUE]]
    /\ UNCHANGED <<heap, cfgs, held, steps, loaded, merged, got>>

(* One iteration of the loop of find in thread t, or its final return. *)
FindStep(t) ==
    /\ calls[t].pc = "find"
    /\ LET f == frames[Frame(t)]
           keys == Split(calls[t].key)
           ret(v, ok) ==
               /\ frames' = [frames EXCEPT ![Frame(t)] = [cur |-> v, i |-> f.i, ok |-> ok]]
               /\ calls' = [calls EXCEPT ![t].pc = "found"]
       IN  IF f.i > Len(keys) THEN ret(f.cur, TRUE)
           ELSE IF f.cur = Null THEN ret(Null, FALSE)
           ELSE IF IsMapRef(heap, f.cur) /\ keys[f.i] \in DOMAIN heap[f.cur[2]][2]
           THEN /\ frames' = [frames EXCEPT ![Frame(t)] =
                                [cur |-> heap[f.cur[2]][2][keys[f.i]], i |-> f.i + 1, ok |-> TRUE]]
                /\ UNCHANGED calls
           ELSE ret(Null, FALSE)
    /\ UNCHANGED <<heap, cfgs, held, steps, loaded, merged, got>>

(* What the accessor does with (v, ok) of find and returns.  GetInt gives  *)
(* the int found or the zero default; Unmarshal binds the map found onto   *)
(* the caller's own target, or fails.                                      *)
Return(t) ==
    /\ calls[t].pc = "found"
    /\ LET f == frames[Frame(t)]
           op == calls[t].op
           done(res) == calls' = [calls EXCEPT ![t].pc = "done", ![t].res = res]
       IN  CASE op = "Has" -> done(<<"bool", f.ok>>) /\ UNCHANGED heap
             [] op = "Get" -> done(f.cur) /\ UNCHANGED heap
             [] op = "GetInt" ->
                    done(IF f.ok /\ f.cur[1] = "int" THEN f.cur ELSE IntV(0)) /\ UNCHANGED heap
             [] op = "Unmarshal" ->
                    /\ done(IF ~f.ok THEN <<"error", "not found">>
                            ELSE IF ~IsMapRef(heap, f.cur) THEN <<"error", "not a map">>
                            ELSE <<"bound", Abs(heap, f.cur)>>)
                    /\ UNCHANGED heap
             [] op \in {"GetMap", "GetSub"} ->
                    IF f.ok /\ IsMapRef(heap, f.cur)
                    THEN LET cp == deepCopyMap(heap, f.cur[2])
                         IN  /\ heap' = cp.h
                             /\ done(<<Abs(cp.h, Ref(cp.a)), TRUE>>)
                    ELSE done(<<Null, FALSE>>) /\ UNCHANGED heap
             [] op = "All" ->
                    LET cp == deepCopyMap(heap, cfgs[1].values)
                    IN  /\ heap' = cp.h
                        /\ done(<<Abs(cp.h, Ref(cp.a)), TRUE>>)
    /\ UNCHANGED <<cfgs, held, steps, loaded, merged, frames, got>>

NextConc ==
    \/ \E t \in Threads : \E c \in ConcCalls : Call(t, c[1], c[2])
    \/ \E t \in Threads : FindStep(t)
    \/ \E t \in Threads : Return(t)

SpecConc == InitConc /\ [][NextConc]_vars

----------------------------------------------------------------------------
(* Trees without a heap, for stating what the operations must compute.    *)

(* The value at a dotted path of a tree: <<value, found>>. *)
RECURSIVE TreeAtFrom(_, _, _)
TreeAtFrom(t, keys, i) ==
    IF i > Len(keys) THEN <<t, TRUE>>
    ELSE IF t[1] \in {"map", "anymap"} /\ keys[i] \in DOMAIN t[2]
         THEN TreeAtFrom(t[2][keys[i]], keys, i + 1)
         ELSE <<Null, FALSE>>

TreeAt(t, path) == TreeAtFrom(t, Split(path), 1)

(* The paths that are path itself or a prefix of it. *)
Prefixes(path) ==
    {q \in Paths : LET a == Split(q)
                       b == Split(path)
                   IN  Len(a) <= Len(b) /\ SubSeq(b, 1, Len(a)) = a}

(* A tree after the template pass, every render succeeding. *)
RECURSIVE RenderTree(_)
RenderTree(t) ==
    CASE t[1] = "str" -> IF IsTemplate(t[2]) THEN StrV(render(t[2]).s) ELSE t
      [] t[1] \in {"map", "seq"} -> <<t[1], [k \in DOMAIN t[2] |-> RenderTree(t[2][k])]>>
      [] OTHER -> t

(* The paths of all the string scalars of a tree whose render fails. *)
RECURSIVE FailingPaths(_, _)
FailingPaths(t, path) ==
    CASE t[1] = "str" -> IF IsTemplate(t[2]) /\ render(t[2]).err THEN {path} ELSE {}
      [] t[1] = "map" ->
            UNION {FailingPaths(t[2][k], MapChildPath(path, k)) : k \in DOMAIN t[2]}
      [] t[1] = "seq" ->
            UNION {FailingPaths(t[2][i], SeqChildPath(path, i)) : i \in DOMAIN t[2]}
      [] OTHER -> {}

(* The right-biased recursive merge of two mapping trees. *)
RECURSIVE Merged(_, _)
Merged(d, s) ==
    <<"map", [k \in (DOMAIN d[2]) \cup (DOMAIN s[2]) |->
        IF k \notin DOMAIN s[2] THEN d[2][k]
        ELSE IF k \in DOMAIN d[2] /\ d[2][k][1] = "map" /\ s[2][k][1] = "map"
             THEN Merged(d[2][k], s[2][k])
             ELSE s[2][k]]>>

(* A step in which the caller wrote into an existing object. *)
IsWrite == Len(heap') = Len(heap) /\ heap' # heap /\ cfgs' = cfgs /\ held' = held
Written == {a \in DOMAIN heap : heap'[a] # heap[a]}
(* ... reaching that object through one of the references es. *)
WriteVia(es) == IsWrite /\ Written \subseteq Reach(heap, {e.a : e \in es})

(* Handle c resolves every path to the same result after the step. *)
SameTable(c) == Table(heap', cfgs[c].values) = Table(heap, cfgs[c].values)

----------------------------------------------------------------------------
C2_Supplies(out, p) == ~out.err /\ TreeAt(out.cfg, p)[2]

(* Loaders i and j, i before j, disagree at p on non-mapping values and   *)
(* no loader after j touches p or a prefix of it.                          *)
C2_Conflict(p, i, j) ==
    /\ i < j
    /\ C2_Supplies(loaded.ls[i], p)
    /\ C2_Supplies(loaded.ls[j], p)
    /\ TreeAt(loaded.ls[i].cfg, p)[1][1] # "map"
    /\ TreeAt(loaded.ls[j].cfg, p)[1][1] # "map"
    /\ TreeAt(loaded.ls[i].cfg, p)[1] # TreeAt(loaded.ls[j].cfg, p)[1]
    /\ \A k \in (j + 1)..Len(loaded.ls) :
          \A q \in Prefixes(p) : ~C2_Supplies(loaded.ls[k], q)

(* C2: New merges the loaders' results in registration order: when two    *)
(* loaders supply different non-mapping values at one path and no loader   *)
(* registered after them supplies a value at that path or at a prefix of   *)
(* it, the Handle resolves the path to the later loader's value (as the    *)
(* template pass leaves it: unchanged when it holds no template).          *)
C2_LaterLoaderWins ==
    (loaded.done /\ cfgs # <<>>) =>
        \A p \in Paths : \A i, j \in 1..Len(loaded.ls) :
            C2_Conflict(p, i, j) =>
                Resolve(heap, cfgs[1].values, p)
                    = <<RenderTree(TreeAt(loaded.ls[j].cfg, p)[1]), TRUE>>

(* Three loaders, the first two in conflict at a.b, the third elsewhere. *)
C2_Witness ==
    /\ loaded.done
    /\ cfgs # <<>>
    /\ Len(loaded.ls) = 3
    /\ C2_Conflict(KAB, 1, 2)
    /\ C2_Supplies(loaded.ls[3], KB)

(* A step that is a call on Handle c handing something to the caller: the  *)
(* caller holds a new reference obtained from c, or a Handle made from c. *)
C3_OpOn(c) ==
    \/ held' # held /\ \A e \in held' \ held : e.cfg = c
    \/ Len(cfgs') = Len(cfgs) + 1 /\ cfgs'[Len(cfgs')].of = c

(* C3: a Handle's tree is immutable: no public operation on the Handle,   *)
(* and no write of the caller into a value that Get, GetMap or All         *)
(* returned for it, changes what any path resolves to on the Handle.       *)
C3_HandleImmutable ==
    [][\A c \in DOMAIN cfgs :
          (C3_OpOn(c) \/ WriteVia({e \in held : e.cfg = c /\ e.tag \in {"Get", "GetMap", "All"}}))
              => SameTable(c)]_vars

(* C4: c.WithOverrides(o) leaves c resolving every path as before and     *)
(* returns a Handle with a tree of its own.                                *)
C4_WithOverridesKeepsReceiver ==
    [][(Len(cfgs') = Len(cfgs) + 1 /\ cfgs'[Len(cfgs')].kind = "WithOverrides")
          => /\ SameTable(cfgs'[Len(cfgs')].of)
             /\ cfgs'[Len(cfgs')].values # cfgs[cfgs'[Len(cfgs')].of].values]_vars

(* C5: after cfg = FromMap(m), no write of the caller into m, at any      *)
(* depth, changes what a path resolves to on cfg.                          *)
C5_FromMapDeepCopies ==
    [][WriteVia({e \in held : e.tag = "arg"})
          => \A c \in DOMAIN cfgs : cfgs[c].kind = "FromMap" => SameTable(c)]_vars

(* The references the caller holds to copies made of Handle c: the maps   *)
(* of All and GetMap, and what it reads from a sub-handle of c.            *)
C6_CopiesOf(c) ==
    {e \in held :
        \/ e.cfg = c /\ e.tag \in {"All", "GetMap"}
        \/ /\ e.tag \in {"Get", "All", "GetMap"}
           /\ cfgs[e.cfg].kind = "GetSub"
           /\ cfgs[e.cfg].of = c}

(* C6: no write of the caller into the map All or GetMap returned, or     *)
(* into the tree of the Handle GetSub returned, at any depth, changes      *)
(* what a path resolves to on the Handle they came from.                   *)
C6_CopiesAreIndependent ==
    [][\A c \in DOMAIN cfgs : WriteVia(C6_CopiesOf(c)) => SameTable(c)]_vars

(* What op(key) returns on the Handle when no other call runs. *)
C7_Alone(op, key) ==
    LET r == find(heap, cfgs[1].values, key)
    IN  CASE op = "Has" -> <<"bool", r[2]>>
          [] op = "Get" -> r[1]
          [] op = "GetInt" -> IF r[2] /\ r[1][1] = "int" THEN r[1] ELSE IntV(0)
          [] op = "Unmarshal" ->
                IF ~r[2] THEN <<"error", "not found">>
                ELSE IF ~IsMapRef(heap, r[1]) THEN <<"error", "not a map">>
                ELSE <<"bound", Abs(heap, r[1])>>
          [] op \in {"GetMap", "GetSub"} ->
                IF r[2] /\ IsMapRef(heap, r[1]) THEN <<Abs(heap, r[1]), TRUE>>
                ELSE <<Null, FALSE>>
          [] OTHER -> <<Abs(heap, Ref(cfgs[1].values)), TRUE>>

(* C7: under any interleaving of reading calls by several threads on one  *)
(* Handle, every call returns what it returns when run alone and no step   *)
(* writes to an object of the Handle's tree.                               *)
C7_ConcurrentReadsSafe ==
    /\ [](\A t \in Threads :
            calls[t].pc = "done" => calls[t].res = C7_Alone(calls[t].op, calls[t].key))
    /\ [][\A a \in Reach(heap, {cfgs[1].values}) : heap'[a] = heap[a]]_vars

(* Thread 1 has returned from GetMap while thread 2 is inside the loop of *)
(* find.                                                                   *)
C7_Witness ==
    /\ calls[1].pc = "done"
    /\ calls[1].op = "GetMap"
    /\ calls[1].res[2]
    /\ calls[2].pc = "find"
    /\ calls[2].op = "Get"
    /\ frames[2].i = 2

(* C8: after New, every map a loader returned, nested maps included, is   *)
(* what the loader returned.                                               *)
C8_LoaderMapsUntouched ==
    loaded.done =>
        \A i \in DOMAIN loaded.outs :
            Abs(heap, Ref(loaded.outs[i].root)) = loaded.outs[i].tree

(* C9: when a loader fails, New returns that loader's error and no        *)
(* Handle, and invokes no loader registered after it.                      *)
C9_LoaderFailureIsFatal ==
    loaded.done =>
        \A i \in 1..Len(loaded.ls) :
            (loaded.ls[i].err /\ \A j \in 1..(i - 1) : ~loaded.ls[j].err)
                => /\ cfgs = <<>>
                   /\ loaded.err = LoadError(i)
                   /\ loaded.invoked = i

(* The second of three loaders failed after the first had succeeded. *)
C9_Witness ==
    /\ loaded.done
    /\ Len(loaded.ls) = 3
    /\ ~loaded.ls[1].err
    /\ loaded.ls[2].err
    /\ ~loaded.ls[3].err
    /\ loaded.invoked = 2

(* C10: when the render of a string scalar of the merged tree fails, New  *)
(* returns no Handle and an error naming the path of a failing scalar; a   *)
(* Handle New returns holds every template fully rendered.                 *)
C10_RenderFailureAborts ==
    (loaded.done /\ loaded.err[1] # "load") =>
        /\ FailingPaths(loaded.tree, <<>>) # {} =>
              /\ cfgs = <<>>
              /\ loaded.err[1] = "render"
              /\ loaded.err[2] \in FailingPaths(loaded.tree, <<>>)
        /\ cfgs # <<>> =>
              /\ FailingPaths(loaded.tree, <<>>) = {}
              /\ Abs(heap, Ref(cfgs[1].values)) = RenderTree(loaded.tree)

(* The failing scalar is the second element of the sequence at a. *)
C10_Witness ==
    /\ loaded.done
    /\ cfgs = <<>>
    /\ loaded.err = RenderError(<<"a", "[", "1", "]">>)

----------------------------------------------------------------------------
(* Numbers.  The widths are scaled down: IntBits stands for the 64 bits   *)
(* of int64, uint64 and (on a 64-bit build) int, SmallBits for the 8 bits  *)
(* of int8 and uint8, MantBits for the 53-bit significand of float64.      *)
(* What matters is kept: SmallBits < IntBits and MantBits < IntBits - 1,   *)
(* so the largest integer is not a float64, as 2^63 - 1 is not.            *)
(* A float64 is <<"float", n>> with n its (integral) value.                *)

IntBits == 5
SmallBits == 3
MantBits == 3

RECURSIVE Pow2(_)
Pow2(n) == IF n = 0 THEN 1 ELSE 2 * Pow2(n - 1)

Abs0(n) == IF n < 0 THEN -n ELSE n

(* math.MinInt64, math.MaxInt64, math.MaxUint64, math.MinInt, math.MaxInt *)
MinInt64 == -Pow2(IntBits - 1)
MaxInt64 == Pow2(IntBits - 1) - 1
MaxUint64 == Pow2(IntBits) - 1
MinInt == MinInt64
MaxInt == MaxInt64

(* The range of a signed and of an unsigned integer type of bits bits. *)
MinOf(bits) == -Pow2(bits - 1)
MaxOf(bits) == Pow2(bits - 1) - 1
MaxUOf(bits) == Pow2(bits) - 1

Int64V(n) == <<"int64", n>>
Uint64V(n) == <<"uint64", n>>
FloatV(n) == <<"float", n>>
BoolV(b) == <<"bool", b>>

(* The number of binary digits of n > 0. *)
RECURSIVE BitLen(_)
BitLen(n) == IF n = 0 THEN 0 ELSE 1 + BitLen(n \div 2)

(* float64(n) for an integer n: the nearest value with a significand of   *)
(* MantBits bits, ties to the even significand.                            *)
ToFloat(n) ==
    LET a == Abs0(n)
        sign == IF n < 0 THEN -1 ELSE 1
    IN  IF BitLen(a) <= MantBits THEN n
        ELSE LET q == Pow2(BitLen(a) - MantBits)
                 lo == (a \div q) * q
                 hi == lo + q
             IN  sign * (IF a - lo < hi - a THEN lo
                         ELSE IF a - lo > hi - a THEN hi
                         ELSE IF (lo \div q) % 2 = 0 THEN lo ELSE hi)

(* int64(f) and int(f) for a float64 f: the value when it is in range;    *)
(* out of range the result is implementation-dependent (the most negative  *)
(* integer on amd64, the nearest bound on arm64).                          *)
FloatToInt64(f) ==
    IF MinInt64 <= f /\ f <= MaxInt64 THEN {f} ELSE {MinInt64, MaxInt64}

(* uint64(f) for a float64 f, likewise. *)
FloatToUint64(f) ==
    IF 0 <= f /\ f <= MaxUint64 THEN {f} ELSE {0, Pow2(IntBits - 1), MaxUint64}

(* The value of a decimal digit character; -1 for any other character. *)
DigitVal(c) ==
    IF \E i \in 1..10 : Digit[i] = c THEN (CHOOSE i \in 1..10 : Digit[i] = c) - 1 ELSE -1

(* The number a non-empty string of decimal digits denotes; -1 when s is  *)
(* empty or holds another character.                                       *)
RECURSIVE DigitsFrom(_, _, _)
DigitsFrom(s, i, acc) ==
    IF i > Len(s) THEN acc
    ELSE IF DigitVal(s[i]) < 0 THEN -1
    ELSE DigitsFrom(s, i + 1, 10 * acc + DigitVal(s[i]))

Digits(s) == IF Len(s) = 0 THEN -1 ELSE DigitsFrom(s, 1, 0)

(* strconv.ParseInt(s, 10, bits): an optional sign, decimal digits, and   *)
(* the value within the range of bits bits.                                *)
ParseInt(s, bits) ==
    LET neg == Len(s) > 0 /\ s[1] = "-"
        signed == Len(s) > 0 /\ s[1] \in {"-", "+"}
        d == Digits(IF signed THEN Tail(s) ELSE s)
        n == IF neg THEN -d ELSE d
    IN  IF d < 0 \/ n < MinOf(bits) \/ n > MaxOf(bits)
        THEN [ok |-> FALSE, n |-> 0]
        ELSE [ok |-> TRUE, n |-> n]

(* strconv.ParseUint(s, 10, bits): decimal digits, no sign. *)
ParseUint(s, bits) ==
    LET d == Digits(s)
    IN  IF d < 0 \/ d > MaxUOf(bits)
        THEN [ok |-> FALSE, n |-> 0]
        ELSE [ok |-> TRUE, n |-> d]

(* strconv.ParseFloat(s, 64) on the literals of the model: a signed       *)
(* decimal integer.                                                        *)
ParseFloat(s) ==
    LET neg == Len(s) > 0 /\ s[1] = "-"
        signed == Len(s) > 0 /\ s[1] \in {"-", "+"}
        d == Digits(IF signed THEN Tail(s) ELSE s)
    IN  IF d < 0 THEN [ok |-> FALSE, n |-> 0]
        ELSE [ok |-> TRUE, n |-> ToFloat(IF neg THEN -d ELSE d)]

(* strconv.Itoa / fmt.Sprintf("%v", n) for an integer. *)
RECURSIVE FormatNat(_)
FormatNat(n) == IF n < 10 THEN <<Digit[n + 1]>> ELSE Append(FormatNat(n \div 10), Digit[(n % 10) + 1])

FormatInt(n) == IF n < 0 THEN <<"-">> \o FormatNat(-n) ELSE FormatNat(n)

(* fmt.Sprintf("%v", v) for a scalar v that is an integer, an integral    *)
(* float64, a boolean or a string.                                         *)
Sprint(v) ==
    CASE v[1] \in {"int", "int64", "uint64", "float"} -> FormatInt(v[2])
      [] v[1] = "bool" -> IF v[2] THEN <<"t", "r", "u", "e">> ELSE <<"f", "a", "l", "s", "e">>
      [] v[1] = "str" -> v[2]

(* The outcome of a coercion: the value and whether it succeeded. *)
Conv(n) == [ok |-> TRUE, n |-> n]
NoConv == [ok |-> FALSE, n |-> 0]

(* toInt(v): the outcomes a build can produce. *)
toInt(v) ==
    CASE v[1] = "int" -> {Conv(v[2])}
      [] v[1] = "int64" ->
            IF v[2] < MinInt \/ v[2] > MaxInt THEN {NoConv} ELSE {Conv(v[2])}
      [] v[1] = "uint64" ->
            IF v[2] > MaxInt THEN {NoConv} ELSE {Conv(v[2])}
      [] v[1] = "float" ->
            IF v[2] < ToFloat(MinInt) \/ v[2] > ToFloat(MaxInt) THEN {NoConv}
            ELSE {Conv(n) : n \in FloatToInt64(v[2])}
      [] v[1] = "bool" -> {Conv(IF v[2] THEN 1 ELSE 0)}
      [] v[1] = "str" ->
            LET r == ParseInt(v[2], IntBits) IN IF r.ok THEN {Conv(r.n)} ELSE {NoConv}
      [] OTHER -> {NoConv}

(* toFloat64(v) *)
toFloat64(v) ==
    CASE v[1] = "float" -> Conv(v[2])
      [] v[1] \in {"int", "int64", "uint64"} -> Conv(ToFloat(v[2]))
      [] v[1] = "str" ->
            LET r == ParseFloat(v[2]) IN IF r.ok THEN Conv(r.n) ELSE NoConv
      [] OTHER -> NoConv

----------------------------------------------------------------------------
(* The typed getters of config.go, each on the (v, ok) that find returns; *)
(* defs is the variadic default: <<>> or <<d>>.                            *)

(* getFirst(values), zero the zero value of the type. *)
getFirst(defs, zero) == IF Len(defs) > 0 THEN defs[1] ELSE zero

(* The nil slice a slice getter returns. *)
NilSlice == <<"nil", 0>>

IsScalar(v) == v[1] \in {"null", "int", "int64", "uint64", "float", "bool", "str"}

(* A GetString that treats a null value like an absent key. *)
GetStringNullAsAbsent(v, ok, defs) ==
    IF ~ok \/ v = Null THEN getFirst(defs, <<>>)
    ELSE IF v[1] = "str" THEN v[2]
    ELSE Sprint(v)

(* Config.GetString on what find returned. *)
GetStringOf(v, ok, defs) ==
    IF ~ok THEN getFirst(defs, <<>>)
    ELSE IF v = Null THEN <<>>
    ELSE IF v[1] = "str" THEN v[2]
    ELSE Sprint(v)

GetIntOf(v, ok, defs) ==
    IF ~ok THEN {getFirst(defs, 0)}
    ELSE {IF r.ok THEN r.n ELSE getFirst(defs, 0) : r \in toInt(v)}

GetInt64Of(v, ok, defs) ==
    IF ~ok THEN {getFirst(defs, 0)}
    ELSE CASE v[1] = "int64" -> {v[2]}
           [] v[1] = "int" -> {v[2]}
           [] v[1] = "uint64" ->
                 IF v[2] > MaxInt64 THEN {getFirst(defs, 0)} ELSE {v[2]}
           [] v[1] = "float" ->
                 IF v[2] < ToFloat(MinInt64) \/ v[2] > ToFloat(MaxInt64)
                 THEN {getFirst(defs, 0)}
                 ELSE FloatToInt64(v[2])
           [] v[1] = "bool" -> {IF v[2] THEN 1 ELSE 0}
           [] v[1] = "str" ->
                 LET r == ParseInt(v[2], IntBits)
                 IN  IF r.ok THEN {r.n} ELSE {getFirst(defs, 0)}
           [] OTHER -> {getFirst(defs, 0)}

GetUint64Of(v, ok, defs) ==
    IF ~ok THEN {getFirst(defs, 0)}
    ELSE CASE v[1] = "uint64" -> {v[2]}
           [] v[1] \in {"int", "int64"} ->
                 IF v[2] < 0 THEN {getFirst(defs, 0)} ELSE {v[2]}
           [] v[1] = "float" ->
                 IF v[2] < 0 \/ v[2] > ToFloat(MaxUint64)
                 THEN {getFirst(defs, 0)}
                 ELSE FloatToUint64(v[2])
           [] v[1] = "str" ->
                 LET r == ParseUint(v[2], IntBits)
                 IN  IF r.ok THEN {r.n} ELSE {getFirst(defs, 0)}
           [] OTHER -> {getFirst(defs, 0)}

(* The loop of GetIntSlice over a []any from element i on: the slices it  *)
(* can build, each element appended when toInt accepts it.                 *)
RECURSIVE IntSliceFrom(_, _, _)

(* A loop that gives up at the first element toInt rejects. *)
IntSliceAborting(items, i, out) ==
    IF i > Len(items) THEN {out}
    ELSE UNION {IF r.ok THEN IntSliceFrom(items, i + 1, Append(out, r.n)) ELSE {<<>>}
                    : r \in toInt(items[i])}

IntSliceFrom(items, i, out) ==
    IF i > Len(items) THEN {out}
    ELSE UNION {IntSliceFrom(items, i + 1, IF r.ok THEN Append(out, r.n) ELSE out)
                    : r \in toInt(items[i])}

(* The loop of GetIntSlice over a []float64: out[i] = int(f). *)
RECURSIVE TruncFrom(_, _, _)
TruncFrom(items, i, out) ==
    IF i > Len(items) THEN {out}
    ELSE UNION {TruncFrom(items, i + 1, Append(out, n)) : n \in FloatToInt64(items[i][2])}

(* GetIntSlice on the object o that v refers to (o is v when v is a       *)
(* scalar).                                                                *)
GetIntSliceOf(v, o, ok) ==
    IF ~ok \/ v = Null THEN {NilSlice}
    ELSE CASE o[1] = "ints" -> {<<"ints", [i \in DOMAIN o[2] |-> o[2][i][2]]>>}
           [] o[1] = "seq" -> {<<"ints", s>> : s \in IntSliceFrom(o[2], 1, <<>>)}
           [] o[1] = "floats" -> {<<"ints", s>> : s \in TruncFrom(o[2], 1, <<>>)}
           [] OTHER -> {NilSlice}

(* The loop of GetFloat64Slice over a []any. *)
RECURSIVE FloatSliceFrom(_, _, _)
FloatSliceFrom(items, i, out) ==
    IF i > Len(items) THEN out
    ELSE LET r == toFloat64(items[i])
         IN  FloatSliceFrom(items, i + 1, IF r.ok THEN Append(out, r.n) ELSE out)

GetFloat64SliceOf(v, o, ok) ==
    IF ~ok \/ v = Null THEN NilSlice
    ELSE CASE o[1] = "floats" -> <<"floats", [i \in DOMAIN o[2] |-> o[2][i][2]]>>
           [] o[1] = "seq" -> <<"floats", FloatSliceFrom(o[2], 1, <<>>)>>
           [] o[1] = "ints" -> <<"floats", [i \in DOMAIN o[2] |-> ToFloat(o[2][i][2])]>>
           [] OTHER -> NilSlice

(* The object a value refers to; the value itself when it is a scalar. *)
Deref(h, v) == IF IsRef(v) THEN h[v[2]] ELSE v

----------------------------------------------------------------------------
(* One accessor call on a Handle built by FromMap.                        *)

(* The floats next to the bounds of the integer types. *)
FloatStep == Pow2(IntBits - MantBits)
FloatAtMaxInt == Pow2(IntBits - 1)
FloatAtMaxUint == Pow2(IntBits)

ScalarVals ==
    {Null,
     IntV(3), IntV(-1), IntV(MaxInt),
     Int64V(MinInt64), Int64V(-2), Int64V(MaxInt64),
     Uint64V(2), Uint64V(MaxInt64 + 1), Uint64V(MaxUint64),
     FloatV(2), FloatV(-2),
     FloatV(MinInt64), FloatV(MinInt64 - FloatStep),
     FloatV(FloatAtMaxInt - FloatStep \div 2), FloatV(FloatAtMaxInt),
     FloatV(FloatAtMaxInt + FloatStep), FloatV(FloatAtMaxUint),
     BoolV(TRUE), BoolV(FALSE),
     StrV(<<"7">>), StrV(<<"-", "3">>), StrV(<<"9", "9">>), StrV(<<"x">>), StrV(<<>>)}

SeqVals ==
    {<<"seq", <<>>>>,
     <<"seq", <<IntV(3), StrV(<<"x">>), StrV(<<"7">>), Null>>>>,
     <<"seq", <<BoolV(TRUE), FloatV(2), MapB(IntV(1)), Uint64V(MaxUint64)>>>>,
     <<"seq", <<StrV(<<"x">>), IntV(-1)>>>>,
     <<"ints", <<IntV(3), IntV(-1)>>>>,
     <<"ints", <<IntV(MaxInt)>>>>,
     <<"floats", <<FloatV(2), FloatV(-2)>>>>,
     <<"strs", <<StrV(<<"7">>)>>>>}

NodeVals ==
    {MapB(IntV(1)), MapB(Null), MapB(MapA(IntV(1))), MapB(<<"seq", <<IntV(1)>>>>),
     <<"anymap", KB :> IntV(1)>>}

GetTrees == {MapA(v) : v \in ScalarVals \cup SeqVals \cup NodeVals}

(* The paths find is called with: one to three segments, and the empty path. *)
GetPaths == Paths \cup {KAB \o <<Dot>> \o KA, <<>>}

IntDefs == {<<>>, <<5>>}
StrDefs == {<<>>, <<<<"d">>>>}

InitGet ==
    /\ \E t \in GetTrees :
          LET b == Build(<<>>, t)
              r == deepCopyMap(b.h, b.v[2])
          IN  /\ heap = r.h
              /\ cfgs = <<Cfg(r.h, r.a, "FromMap", 0)>>
    /\ held = {}
    /\ steps = 0
    /\ loaded = NotLoaded
    /\ merged = NotMerged
    /\ calls = [t \in Threads |-> Idle]
    /\ frames = [t \in Threads |-> NoFrame]
    /\ got = NoCall

(* c.find(key) *)
Find(key) ==
    /\ got' = [op |-> "find", key |-> key, res |-> find(heap, cfgs[1].values, key)]
    /\ UNCHANGED <<heap, cfgs, held, steps, loaded, merged, calls, frames>>

(* sub, ok := c.GetSub(k), then sub.find(p) when ok. *)
GetSubFind(k, p) ==
    /\ LET r == find(heap, cfgs[1].values, k)
       IN  IF r[2] /\ IsMapRef(heap, r[1])
           THEN LET cp == deepCopyMap(heap, r[1][2])
                IN  /\ heap' = cp.h
                    /\ cfgs' = Append(cfgs, Cfg(cp.h, cp.a, "GetSub", 1))
                    /\ got' = [op |-> "GetSub", key |-> k, path |-> p, ok |-> TRUE,
                               res |-> Resolve(cp.h, cp.a, p)]
           ELSE /\ got' = [op |-> "GetSub", key |-> k, path |-> p, ok |-> FALSE,
                           res |-> <<Null, FALSE>>]
                /\ UNCHANGED <<heap, cfgs>>
    /\ UNCHANGED <<held, steps, loaded, merged, calls, frames>>

(* c.GetString(key, defs...) on a scalar or an absent key. *)
GetString(key, defs) ==
    /\ LET r == find(heap, cfgs[1].values, key)
       IN  /\ IsScalar(r[1])
           /\ got' = [op |-> "GetString", key |-> key, defs |-> defs,
                      res |-> GetStringOf(r[1], r[2], defs)]
    /\ UNCHANGED <<heap, cfgs, held, steps, loaded, merged, calls, frames>>

(* c.GetInt(key, defs...) *)
GetInt(key, defs) ==
    /\ LET r == find(heap, cfgs[1].values, key)
       IN  \E n \in GetIntOf(r[1], r[2], defs) :
              got' = [op |-> "GetInt", key |-> key, defs |-> defs, res |-> n]
    /\ UNCHANGED <<heap, cfgs, held, steps, loaded, merged, calls, frames>>

(* c.GetInt64(key, defs...) *)
GetInt64(key, defs) ==
    /\ LET r == find(heap, cfgs[1].values, key)
       IN  \E n \in GetInt64Of(r[1], r[2], defs) :
              got' = [op |-> "GetInt64", key |-> key, defs |-> defs, res |-> n]
    /\ UNCHANGED <<heap, cfgs, held, steps, loaded, merged, calls, frames>>

(* c.GetUint64(key, defs...) *)
GetUint64(key, defs) ==
    /\ LET r == find(heap, cfgs[1].values, key)
       IN  \E n \in GetUint64Of(r[1], r[2], defs) :
              got' = [op |-> "GetUint64", key |-> key, defs |-> defs, res |-> n]
    /\ UNCHANGED <<heap, cfgs, held, steps, loaded, merged, calls, frames>>

(* c.GetIntSlice(key) *)
GetIntSlice(key) ==
    /\ LET r == find(heap, cfgs[1].values, key)
       IN  \E s \in GetIntSliceOf(r[1], Deref(heap, r[1]), r[2]) :
              got' = [op |-> "GetIntSlice", key |-> key, res |-> s]
    /\ UNCHANGED <<heap, cfgs, held, steps, loaded, merged, calls, frames>>

(* c.GetFloat64Slice(key) *)
GetFloat64Slice(key) ==
    /\ LET r == find(heap, cfgs[1].values, key)
       IN  got' = [op |-> "GetFloat64Slice", key |-> key,
                   res |-> GetFloat64SliceOf(r[1], Deref(heap, r[1]), r[2])]
    /\ UNCHANGED <<heap, cfgs, held, steps, loaded, merged, calls, frames>>

(* One call is made. *)
NextGet ==
    /\ got = NoCall
    /\ \/ \E key \in GetPaths : Find(key)
       \/ \E k \in Keys, p \in Paths : GetSubFind(k, p)
       \/ \E key \in Keys, defs \in StrDefs : GetString(key, defs)
       \/ \E key \in Keys, defs \in IntDefs : GetInt(key, defs)
       \/ \E key \in Keys, defs \in IntDefs : GetInt64(key, defs)
       \/ \E key \in Keys, defs \in IntDefs : GetUint64(key, defs)
       \/ \E key \in Keys : GetIntSlice(key)
       \/ \E key \in Keys : GetFloat64Slice(key)

SpecGet == InitGet /\ [][NextGet]_vars

----------------------------------------------------------------------------
(* Path resolution. *)

(* The position of the last dot of path, 0 when it has none. *)
LastDot(path) ==
    LET ds == {i \in 1..Len(path) : path[i] = Dot}
    IN  IF ds = {} THEN 0 ELSE CHOOSE i \in ds : \A j \in ds : j <= i

(* The node the last segment of path is looked up in: the root for a      *)
(* one-segment path, else what the path without its last segment finds.   *)
NodeAbove(h, values, path) ==
    IF LastDot(path) = 0 THEN <<Ref(values), TRUE>>
    ELSE find(h, values, SubSeq(path, 1, LastDot(path) - 1))

LastSegment(path) == SubSeq(path, LastDot(path) + 1, Len(path))

IsMapping(h, v) == IsMapRef(h, v) \/ IsAnyMapRef(h, v)

(* C11: find(path) walks the dot-separated segments from the root: it is  *)
(* found exactly when the node above the last segment was found, is a     *)
(* mapping and holds that segment, and then returns the value stored      *)
(* there; otherwise it returns (null, not found), never a partial result. *)
(* A key present with a null value resolves to (null, found) and every    *)
(* path continuing below it resolves to not-found.                        *)
C11_FindWalksSegments ==
    got.op = "find" =>
        LET values == cfgs[1].values
            above == NodeAbove(heap, values, got.key)
            seg == LastSegment(got.key)
            holds == /\ above[2]
                     /\ IsMapping(heap, above[1])
                     /\ seg \in DOMAIN heap[above[1][2]][2]
        IN  /\ got.res[2] <=> holds
            /\ got.res[2] => got.res[1] = heap[above[1][2]][2][seg]
            /\ ~got.res[2] => got.res[1] = Null
            /\ (got.res[2] /\ got.res[1] = Null) =>
                  \A k \in Keys :
                     find(heap, values, got.key \o <<Dot>> \o k) = <<Null, FALSE>>
            /\ (above[2] /\ above[1] = Null /\ LastDot(got.key) # 0) =>
                  got.res = <<Null, FALSE>>

(* find("a.b") is called where "a" is present with a null value. *)
C11_Witness ==
    /\ got.op = "find"
    /\ got.key = KAB
    /\ got.res = <<Null, FALSE>>
    /\ find(heap, cfgs[1].values, KA) = <<Null, TRUE>>

----------------------------------------------------------------------------
(* Sub-handles. *)

(* C12: a sub-handle is a faithful view of the addressed subtree: when k  *)
(* resolves to a mapping, GetSub(k) succeeds and the sub-handle resolves  *)
(* p to exactly what the Handle resolves k.p to; when k is absent or      *)
(* resolves to a non-mapping, GetSub(k) reports not-found.                *)
C12_GetSubIsFaithful ==
    got.op = "GetSub" =>
        LET values == cfgs[1].values
            r == find(heap, values, got.key)
        IN  IF r[2] /\ IsMapping(heap, r[1])
            THEN /\ got.ok
                 /\ got.res = Resolve(heap, values, got.key \o <<Dot>> \o got.path)
            ELSE ~got.ok

----------------------------------------------------------------------------
(* Scalar getters. *)

(* C13: GetString returns the caller default ("" when none is given) only *)
(* when the path does not resolve; a path that resolves gives a result    *)
(* that does not depend on the default: "" for null, the stored string    *)
(* unchanged for a string.                                                *)
C13_GetStringAbsentVsNull ==
    got.op = "GetString" =>
        LET r == find(heap, cfgs[1].values, got.key)
        IN  /\ ~r[2] => got.res = (IF got.defs = <<>> THEN <<>> ELSE got.defs[1])
            /\ (r[2] /\ r[1] = Null) => got.res = <<>>
            /\ (r[2] /\ r[1][1] = "str") => got.res = r[1][2]
            /\ r[2] => \A d \in StrDefs : GetStringOf(r[1], TRUE, d) = got.res

(* GetString("a", "d") is called where "a" is present with a null value. *)
C13_Witness ==
    /\ got.op = "GetString"
    /\ got.defs # <<>>
    /\ find(heap, cfgs[1].values, got.key) = <<Null, TRUE>>
    /\ got.res = <<>>

(* C14: GetInt and GetInt64 never return a wrapped or truncated value:    *)
(* when the stored value is an integer, an unsigned integer or a float    *)
(* outside the range of the target type, the result is the caller         *)
(* default.                                                               *)
C14_SignedGettersNeverWrap ==
    got.op \in {"GetInt", "GetInt64"} =>
        LET r == find(heap, cfgs[1].values, got.key)
        IN  (/\ r[2]
             /\ r[1][1] \in {"int", "int64", "uint64", "float"}
             /\ (r[1][2] < MinInt64 \/ r[1][2] > MaxInt64))
            => got.res = (IF got.defs = <<>> THEN 0 ELSE got.defs[1])

(* The value GetInt64 accepts for a stored value v: a one-element set     *)
(* when v is converted whatever the default is, else the empty set.       *)
AcceptedInt64(v) ==
    {n \in GetInt64Of(v, TRUE, <<>>) :
        \A d \in IntDefs : GetInt64Of(v, TRUE, d) = {n}}

(* C15: GetUint64 accepts every stored value the signed getters accept    *)
(* (integers, floats, booleans as 1 and 0, base-10 strings) and returns   *)
(* the same number, except that a negative input gives the caller         *)
(* default.                                                               *)
C15_Uint64AcceptsWhatSignedAccept ==
    got.op = "GetUint64" =>
        LET r == find(heap, cfgs[1].values, got.key)
            def == IF got.defs = <<>> THEN 0 ELSE got.defs[1]
        IN  r[2] => \A n \in AcceptedInt64(r[1]) :
                       got.res = (IF n < 0 THEN def ELSE n)

----------------------------------------------------------------------------
(* Sequence getters. *)

(* The numbers the scalar rule of a slice getter can give for an element, *)
(* none when the element is not coercible.                                *)
ElemValues(op, item) ==
    IF op = "GetIntSlice" THEN {r.n : r \in {x \in toInt(item) : x.ok}}
    ELSE IF toFloat64(item).ok THEN {toFloat64(item).n} ELSE {}

(* C16: GetIntSlice and GetFloat64Slice on a heterogeneous sequence       *)
(* return exactly its coercible elements, each coerced by the scalar      *)
(* rule, in their original order, the others dropped; an absent key or a  *)
(* null value gives the nil sequence.                                     *)
C16_SliceGettersDrop ==
    got.op \in {"GetIntSlice", "GetFloat64Slice"} =>
        LET r == find(heap, cfgs[1].values, got.key)
            o == Deref(heap, r[1])
        IN  /\ (~r[2] \/ r[1] = Null) => got.res = NilSlice
            /\ (r[2] /\ o[1] = "seq") =>
                  LET items == o[2]
                      kept == {i \in DOMAIN items : ElemValues(got.op, items[i]) # {}}
                      rank(i) == Cardinality({j \in kept : j <= i})
                  IN  /\ got.res[1] = (IF got.op = "GetIntSlice" THEN "ints" ELSE "floats")
                      /\ Len(got.res[2]) = Cardinality(kept)
                      /\ \A i \in kept :
                            got.res[2][rank(i)] \in ElemValues(got.op, items[i])

(* A slice getter is called on a sequence of which it keeps some elements *)
(* and drops others, the dropped ones not all at the end.                 *)
C16_Witness ==
    /\ got.op \in {"GetIntSlice", "GetFloat64Slice"}
    /\ LET r == find(heap, cfgs[1].values, got.key)
           o == Deref(heap, r[1])
       IN  /\ r[2] /\ o[1] = "seq"
           /\ Len(got.res[2]) = 2
           /\ Len(o[2]) = 4
           /\ ElemValues(got.op, o[2][2]) = {}

----------------------------------------------------------------------------
(* Unmarshal: binding a map onto the fields of a struct.                  *)

(* The field types: int8 and uint8 have SmallBits bits, int, int64 and    *)
(* uint64 IntBits bits.                                                   *)
SignedBits == "int8" :> SmallBits @@ "int64" :> IntBits @@ "int" :> IntBits
UnsignedBits == "uint8" :> SmallBits @@ "uint64" :> IntBits
FieldTypes == DOMAIN SignedBits \cup DOMAIN UnsignedBits \cup {"bool", "string", "*int64"}

(* A conversion that succeeded with value val, and one that failed. *)
Converted(val) == [err |-> "", val |-> val]
ConvErr(e) == [err |-> e, val |-> Null]

(* rv.OverflowInt(i64) and rv.OverflowUint(u64) for a type of bits bits. *)
OverflowInt(n, bits) == n < MinOf(bits) \/ n > MaxOf(bits)
OverflowUint(n, bits) == n > MaxUOf(bits)

(* convertToInt(val, t) for t of bits bits: the outcomes a build can      *)
(* produce.                                                               *)
convertToInt(v, bits) ==
    LET check(n) == IF OverflowInt(n, bits) THEN ConvErr("overflows")
                    ELSE Converted(IntV(n))
    IN  CASE v[1] \in {"int", "int64"} -> {check(v[2])}
          [] v[1] = "uint64" ->
                IF v[2] > MaxInt64 THEN {ConvErr("overflows")} ELSE {check(v[2])}
          [] v[1] = "float" -> {check(n) : n \in FloatToInt64(v[2])}
          [] v[1] = "bool" -> {check(IF v[2] THEN 1 ELSE 0)}
          [] v[1] = "str" ->
                LET r == ParseInt(v[2], bits)
                IN  IF r.ok THEN {check(r.n)} ELSE {ConvErr("cannot parse")}
          [] OTHER -> {ConvErr("cannot convert")}

(* convertToUint(val, t) *)
convertToUint(v, bits) ==
    LET check(n) == IF OverflowUint(n, bits) THEN ConvErr("overflows")
                    ELSE Converted(IntV(n))
    IN  CASE v[1] = "uint64" -> {check(v[2])}
          [] v[1] \in {"int", "int64"} ->
                IF v[2] < 0 THEN {ConvErr("negative value")} ELSE {check(v[2])}
          [] v[1] = "float" ->
                IF v[2] < 0 THEN {ConvErr("negative value")}
                ELSE {check(n) : n \in FloatToUint64(v[2])}
          [] v[1] = "str" ->
                LET r == ParseUint(v[2], bits)
                IN  IF r.ok THEN {check(r.n)} ELSE {ConvErr("cannot parse")}
          [] OTHER -> {ConvErr("cannot convert")}

(* strings.ToLower on the letters of the model. *)
ToLower(s) ==
    [i \in DOMAIN s |-> CASE s[i] = "Y" -> "y" [] s[i] = "N" -> "n"
                           [] s[i] = "A" -> "a" [] s[i] = "B" -> "b" [] OTHER -> s[i]]

(* toBool(v) *)
toBool(v) ==
    CASE v[1] = "bool" -> Converted(BoolV(v[2]))
      [] v[1] = "str" ->
            IF ToLower(v[2]) \in {<<"t", "r", "u", "e">>, <<"1">>, <<"o", "n">>,
                                  <<"y", "e", "s">>, <<"y">>}
            THEN Converted(BoolV(TRUE))
            ELSE IF ToLower(v[2]) \in {<<"f", "a", "l", "s", "e">>, <<"0">>,
                                       <<"o", "f", "f">>, <<"n", "o">>, <<"n">>}
            THEN Converted(BoolV(FALSE))
            ELSE ConvErr("cannot convert")
      [] v[1] \in {"int", "int64", "float"} -> Converted(BoolV(v[2] # 0))
      [] OTHER -> ConvErr("cannot convert")

(* convertToFloat(val, t) for t = float64; a stored float32 is           *)
(* <<"float32", n>>.                                                      *)
convertToFloat(v) ==
    CASE v[1] \in {"float", "float32"} -> Converted(FloatV(v[2]))
      [] v[1] \in {"int", "int64", "uint64"} -> Converted(FloatV(ToFloat(v[2])))
      [] v[1] = "str" ->
            LET r == ParseFloat(v[2])
            IN  IF r.ok THEN Converted(FloatV(r.n)) ELSE ConvErr("cannot parse")
      [] OTHER -> ConvErr("cannot convert")

(* time.Millisecond, in the unit of a time.Duration. *)
Millisecond == 4

(* The product of two int64, which wraps around. *)
WrapInt64(n) == ((n - MinInt64) % Pow2(IntBits)) + MinInt64

(* time.ParseDuration(s) on the literals of the model: "0", or decimal    *)
(* digits followed by "ms".                                               *)
ParseDuration(s) ==
    IF s = <<"0">> THEN [ok |-> TRUE, n |-> 0]
    ELSE IF Len(s) < 3 \/ SubSeq(s, Len(s) - 1, Len(s)) # <<"m", "s">>
    THEN [ok |-> FALSE, n |-> 0]
    ELSE LET d == Digits(SubSeq(s, 1, Len(s) - 2))
         IN  IF d < 0 \/ d * Millisecond > MaxInt64 THEN [ok |-> FALSE, n |-> 0]
             ELSE [ok |-> TRUE, n |-> d * Millisecond]

(* A time.Duration of n units. *)
DurV(n) == <<"dur", n>>

(* convertToDuration(val): the outcomes a build can produce. *)
convertToDuration(v) ==
    CASE v[1] = "str" ->
            LET r == ParseDuration(v[2])
            IN  IF r.ok THEN {Converted(DurV(r.n))} ELSE {ConvErr("cannot parse")}
      [] v[1] \in {"int", "int64"} -> {Converted(DurV(WrapInt64(v[2] * Millisecond)))}
      [] v[1] = "float" ->
            {Converted(DurV(n)) : n \in FloatToInt64(ToFloat(v[2] * Millisecond))}
      [] OTHER -> {ConvErr("cannot convert")}

(* strings.Split(s, ","): the parts between the commas. *)
RECURSIVE SplitComma(_, _, _)
SplitComma(s, i, cur) ==
    IF i > Len(s) THEN <<cur>>
    ELSE IF s[i] = "," THEN <<cur>> \o SplitComma(s, i + 1, <<>>)
    ELSE SplitComma(s, i + 1, Append(cur, s[i]))

(* strings.TrimSpace(s) *)
RECURSIVE TrimSpace(_)
TrimSpace(s) ==
    IF Len(s) > 0 /\ s[1] = " " THEN TrimSpace(Tail(s))
    ELSE IF Len(s) > 0 /\ s[Len(s)] = " " THEN TrimSpace(SubSeq(s, 1, Len(s) - 1))
    ELSE s

RECURSIVE convertToType(_, _)

(* The loop of convertToSlice over items: every element converted in      *)
(* order, the first failure returned.                                     *)
convertItems(items, et) ==
    {IF \E i \in DOMAIN f : f[i].err # "" THEN ConvErr("index")
     ELSE Converted(<<"slice", [i \in DOMAIN f |-> f[i].val]>>)
        : f \in {g \in [DOMAIN items -> UNION {convertToType(items[i], et) : i \in DOMAIN items}] :
                    \A i \in DOMAIN items : g[i] \in convertToType(items[i], et)}}

(* A convertToSlice that leaves out the elements it cannot convert. *)
convertToSliceLenient(v, et) ==
    LET items == IF v[1] \in {"seq", "strs"} THEN v[2] ELSE <<v>>
        keep == SelectSeq(items, LAMBDA e : \E r \in convertToType(e, et) : r.err = "")
    IN  convertItems(keep, et)

(* convertToSlice(val, t, tag) for a slice of et, without separator tag *)
convertToSlice(v, et) ==
    CASE v[1] \in {"seq", "strs"} -> convertItems(v[2], et)
      [] v[1] = "str" ->
            LET parts == SplitComma(v[2], 1, <<>>)
            IN  convertItems([i \in DOMAIN parts |-> StrV(TrimSpace(parts[i]))], et)
      [] OTHER ->
            {IF r.err # "" THEN r ELSE Converted(<<"slice", <<r.val>>>>)
                : r \in convertToType(v, et)}

(* convertToMap(val, t) for a map from string to et: the entries are      *)
(* converted in the order of the range statement, the first failure       *)
(* returned.                                                              *)
convertToMap(v, et) ==
    IF v[1] # "map" THEN {ConvErr("cannot convert")}
    ELSE {IF \E k \in DOMAIN f : f[k].err # "" THEN ConvErr("map key")
          ELSE Converted(<<"mapof", [k \in DOMAIN f |-> f[k].val]>>)
             : f \in {g \in [DOMAIN v[2] -> UNION {convertToType(v[2][k], et) : k \in DOMAIN v[2]}] :
                         \A k \in DOMAIN v[2] : g[k] \in convertToType(v[2][k], et)}}

(* convertToType(val, t, tag); Inner is a struct type. *)
convertToType(v, t) ==
    CASE t = "*int64" ->
            {IF r.err # "" THEN r ELSE Converted(<<"ptr", r.val[2]>>)
                : r \in convertToType(v, "int64")}
      [] t = "duration" -> convertToDuration(v)
      [] t = "string" -> {Converted(StrV(Sprint(v)))}
      [] t = "bool" -> {toBool(v)}
      [] t \in DOMAIN SignedBits -> convertToInt(v, SignedBits[t])
      [] t \in DOMAIN UnsignedBits -> convertToUint(v, UnsignedBits[t])
      [] t = "float64" -> {convertToFloat(v)}
      [] t = "[]int8" -> convertToSlice(v, "int8")
      [] t = "map[string]int8" -> convertToMap(v, "int8")
      [] t \in {"Inner", "*Inner"} -> {ConvErr("unsupported type")}

(* parseStringToType(s, t, tag) for t other than a duration or a time *)
parseStringToType(s, t) == convertToType(StrV(s), t)

(* A struct field: its name, its cfg tag, its type, and its default tag   *)
(* (no literal or one).                                                   *)
Field(name, tag, t, def) == [name |-> name, tag |-> tag, type |-> t, def |-> def]

(* What a field step gives: the error returned (NoErr when the loop goes  *)
(* on) and the value of the field afterwards.                             *)
FieldErr(name, kind) == <<"field", name, kind>>
Step(err, val) == [err |-> err, val |-> val]

(* The fields of the struct type Inner. *)
InnerFields ==
    <<Field("X", KA, "int8", <<<<"2">>>>), Field("Y", KB, "*int64", <<>>)>>

(* The zero value of a field type, and another value of the type. A       *)
(* struct is <<"struct", fields>>, a pointer to one <<"ptrs", fields>>, a *)
(* nil pointer, slice or map <<"nil", 0>>.                                *)
RECURSIVE Zero(_)
Zero(t) ==
    CASE t \in {"*int64", "*Inner", "[]int8", "map[string]int8"} -> <<"nil", 0>>
      [] t = "Inner" -> <<"struct", [i \in DOMAIN InnerFields |-> Zero(InnerFields[i].type)]>>
      [] t = "string" -> StrV(<<>>)
      [] t = "bool" -> BoolV(FALSE)
      [] t = "float64" -> FloatV(0)
      [] t = "duration" -> DurV(0)
      [] OTHER -> IntV(0)

RECURSIVE Filled(_)
Filled(t) ==
    CASE t = "*int64" -> <<"ptr", 1>>
      [] t = "Inner" -> <<"struct", [i \in DOMAIN InnerFields |-> Filled(InnerFields[i].type)]>>
      [] t = "*Inner" -> <<"ptrs", [i \in DOMAIN InnerFields |-> Filled(InnerFields[i].type)]>>
      [] t = "[]int8" -> <<"slice", <<IntV(1)>>>>
      [] t = "map[string]int8" -> <<"mapof", KA :> IntV(1)>>
      [] t = "string" -> StrV(<<"p">>)
      [] t = "bool" -> BoolV(TRUE)
      [] t = "float64" -> FloatV(1)
      [] t = "duration" -> DurV(1)
      [] OTHER -> IntV(1)

RECURSIVE unmarshalStruct(_, _, _, _)

(* An applyDefault that skips a literal it cannot convert. *)
applyDefaultSkipping(field, cur) ==
    IF field.def = <<>> THEN {Step(NoErr, cur)}
    ELSE {IF r.err # "" THEN Step(NoErr, cur) ELSE Step(NoErr, r.val)
             : r \in parseStringToType(field.def[1], field.type)}

(* An applyDefault that sets a field without default tag to the zero      *)
(* value of its type.                                                     *)
applyDefaultZeroing(field, cur) ==
    IF field.def = <<>>
    THEN {Step(NoErr, CASE field.type = "*int64" -> <<"ptr", 0>>
                        [] field.type = "string" -> StrV(<<>>)
                        [] field.type = "bool" -> BoolV(FALSE)
                        [] OTHER -> IntV(0))}
    ELSE {IF r.err # "" THEN Step(FieldErr(field.name, "invalid default"), cur)
          ELSE Step(NoErr, r.val)
             : r \in parseStringToType(field.def[1], field.type)}

(* An applyDefault that binds a nested struct without default tag to an   *)
(* empty map.                                                             *)
applyDefaultRecursing(field, cur) ==
    IF field.def = <<>>
    THEN IF field.type \in {"Inner", "*Inner"}
         THEN {Step(r.err, <<IF field.type = "Inner" THEN "struct" ELSE "ptrs", r.target>>)
                  : r \in unmarshalStruct(<<>>, InnerFields, Zero("Inner")[2], 1)}
         ELSE {Step(NoErr, cur)}
    ELSE {IF r.err # "" THEN Step(FieldErr(field.name, "invalid default"), cur)
          ELSE Step(NoErr, r.val)
             : r \in parseStringToType(field.def[1], field.type)}

(* applyDefault(field, fieldVal), cur being the value of the field *)
applyDefault(field, cur) ==
    IF field.def = <<>> THEN {Step(NoErr, cur)}
    ELSE {IF r.err # "" THEN Step(FieldErr(field.name, "invalid default"), cur)
          ELSE Step(NoErr, r.val)
             : r \in parseStringToType(field.def[1], field.type)}

(* The default is applied whatever the map holds. *)
Always(values, tag) == TRUE

(* !exists || val == nil *)
Missing(values, tag) == tag \notin DOMAIN values \/ values[tag] = Null

(* unmarshalNestedStruct(field, fieldVal, ft, val), cur being the value   *)
(* of the field: a pointer is set to a new struct once the struct is      *)
(* bound, a struct is bound in place.                                     *)
unmarshalNestedStruct(field, cur, val) ==
    IF val[1] # "map" THEN {Step(FieldErr(field.name, "expected map"), cur)}
    ELSE IF field.type = "*Inner"
    THEN {IF r.err # NoErr THEN Step(r.err, cur) ELSE Step(NoErr, <<"ptrs", r.target>>)
             : r \in unmarshalStruct(val[2], InnerFields, Zero("Inner")[2], 1)}
    ELSE {Step(r.err, <<"struct", r.target>>)
             : r \in unmarshalStruct(val[2], InnerFields, cur[2], 1)}

(* One iteration of the loop of unmarshalStruct. *)
FieldStep(values, field, cur) ==
    IF Missing(values, field.tag) THEN applyDefault(field, cur)
    ELSE IF field.type \in {"Inner", "*Inner"}
    THEN unmarshalNestedStruct(field, cur, values[field.tag])
    ELSE {IF r.err # "" THEN Step(FieldErr(field.name, r.err), cur)
          ELSE Step(NoErr, r.val)
             : r \in convertToType(values[field.tag], field.type)}

(* unmarshalStruct(values, rv) from field i on: the error returned and    *)
(* the fields afterwards.                                                 *)
unmarshalStruct(values, fields, target, i) ==
    IF i > Len(fields) THEN {[err |-> NoErr, target |-> target]}
    ELSE UNION {IF s.err # NoErr
                THEN {[err |-> s.err, target |-> [target EXCEPT ![i] = s.val]]}
                ELSE unmarshalStruct(values, fields,
                                     [target EXCEPT ![i] = s.val], i + 1)
                   : s \in FieldStep(values, fields[i], target[i])}

(* The inputs: maps holding a scalar or a map of one scalar under "a",    *)
(* structs of two fields tagged "a" and "b", default literals.            *)
BindTrees ==
    {MapA(v) : v \in ScalarVals}
        \cup {MapA(MapB(v)) : v \in {Null, IntV(3), FloatV(FloatAtMaxInt), StrV(<<"x">>)}}

DefaultTags == {<<>>, <<<<"2">>>>, <<<<"7">>>>, <<<<"Y">>>>, <<<<"x">>>>}

Structs ==
    {<<Field("A", KA, ta, da), Field("B", KB, tb, db)>> :
        ta \in FieldTypes, da \in {<<>>, <<<<"x">>>>},
        tb \in FieldTypes, db \in DefaultTags}

Targets(fields) ==
    {[i \in DOMAIN fields |-> Zero(fields[i].type)],
     [i \in DOMAIN fields |-> Filled(fields[i].type)]}

InitBind ==
    /\ \E t \in BindTrees :
          LET b == Build(<<>>, t)
              r == deepCopyMap(b.h, b.v[2])
          IN  /\ heap = r.h
              /\ cfgs = <<Cfg(r.h, r.a, "FromMap", 0)>>
    /\ held = {}
    /\ steps = 0
    /\ loaded = NotLoaded
    /\ merged = NotMerged
    /\ calls = [t \in Threads |-> Idle]
    /\ frames = [t \in Threads |-> NoFrame]
    /\ got = NoCall

(* The call recorded: its inputs, the map bound and the outcome. *)
Bound(key, fields, before, values, err, target) ==
    [op |-> "Unmarshal", key |-> key, fields |-> fields, before |-> before,
     values |-> values, err |-> err, target |-> target]

(* c.Unmarshal(key, &target), target holding before; values is the map    *)
(* bound, as the tree it holds; string fields meet scalars only.          *)
Unmarshal(key, fields, before) ==
    /\ LET sub == IF key = <<>> THEN <<Ref(cfgs[1].values), TRUE>>
                  ELSE find(heap, cfgs[1].values, key)
       IN  IF ~sub[2]
           THEN got' = Bound(key, fields, before, <<>>, <<"not found", key>>, before)
           ELSE IF ~IsMapRef(heap, sub[1])
           THEN got' = Bound(key, fields, before, <<>>, <<"not a map", key>>, before)
           ELSE LET values == Abs(heap, sub[1])[2]
                IN  /\ \A i \in DOMAIN fields :
                          (fields[i].tag \in DOMAIN values /\ fields[i].type = "string")
                              => IsScalar(values[fields[i].tag])
                    /\ \E r \in unmarshalStruct(values, fields, before, 1) :
                          got' = Bound(key, fields, before, values, r.err, r.target)
    /\ UNCHANGED <<heap, cfgs, held, steps, loaded, merged, calls, frames>>

(* One call is made. *)
NextBind ==
    /\ got = NoCall
    /\ \E key \in {<<>>, KA}, fields \in Structs :
          \E before \in Targets(fields) : Unmarshal(key, fields, before)

SpecBind == InitBind /\ [][NextBind]_vars

----------------------------------------------------------------------------
(* Binding: defaults and overflow. *)

(* Unmarshal reached the loop over the fields. *)
BindRan == got.op = "Unmarshal" /\ got.err[1] \in {"none", "field"}

(* The error returned names field i. *)
ErrAt(i) == got.err[1] = "field" /\ got.err[2] = got.fields[i].name

(* The loop got as far as field i. *)
Reached(i) == got.err = NoErr \/ \E j \in DOMAIN got.fields : j >= i /\ ErrAt(j)

(* The key of field i is absent from the map bound or maps to null. *)
Absent(i) ==
    \/ got.fields[i].tag \notin DOMAIN got.values
    \/ got.values[got.fields[i].tag] = Null

(* What binding field i gives when its key holds the string s. *)
LiveString(i, s) ==
    FieldStep(got.fields[i].tag :> StrV(s), got.fields[i], got.before[i])

(* C17: a field whose key is absent or null and that carries a default    *)
(* tag is set to what binding the literal as a live string value of the   *)
(* field gives; when the literal cannot be converted, Unmarshal returns   *)
(* an error naming the field and leaves the field as it was.              *)
C17_DefaultAppliedOrError ==
    BindRan =>
        \A i \in DOMAIN got.fields :
            (Absent(i) /\ got.fields[i].def # <<>> /\ Reached(i)) =>
                \E s \in LiveString(i, got.fields[i].def[1]) :
                    IF s.err = NoErr
                    THEN ~ErrAt(i) /\ got.target[i] = s.val
                    ELSE /\ got.err = FieldErr(got.fields[i].name, "invalid default")
                         /\ got.target[i] = got.before[i]

(* A field whose key is absent carries a default literal that cannot be   *)
(* converted, and Unmarshal returns the error naming it.                  *)
C17_Witness ==
    /\ BindRan
    /\ \E i \in DOMAIN got.fields :
          /\ Absent(i) /\ got.fields[i].def # <<>>
          /\ got.fields[i].tag \notin DOMAIN got.values
          /\ got.err = FieldErr(got.fields[i].name, "invalid default")

(* The default literal of field i cannot be converted to its type. *)
BadDefault(i) ==
    /\ got.fields[i].def # <<>>
    /\ \A s \in LiveString(i, got.fields[i].def[1]) : s.err # NoErr

(* What converting the value the map holds for field i gives. *)
LiveValue(i) ==
    convertToType(got.values[got.fields[i].tag], got.fields[i].type)

(* C18: default tags are validated lazily: a malformed default literal    *)
(* causes no error and has no effect when the key is present with a       *)
(* non-null convertible value, the field being set from that value; an    *)
(* invalid-default error is returned only for a key absent or null.       *)
C18_DefaultsAreLazy ==
    BindRan =>
        \A i \in DOMAIN got.fields :
            /\ (/\ BadDefault(i) /\ ~Absent(i) /\ Reached(i)
                /\ \A r \in LiveValue(i) : r.err = "")
               => /\ ~ErrAt(i)
                  /\ got.target[i] \in {r.val : r \in LiveValue(i)}
            /\ (ErrAt(i) /\ got.err[3] = "invalid default") => Absent(i)

(* A field with a malformed default literal is bound from the value its   *)
(* key holds, without error.                                              *)
C18_Witness ==
    /\ BindRan
    /\ got.err = NoErr
    /\ \E i \in DOMAIN got.fields :
          /\ BadDefault(i) /\ ~Absent(i)
          /\ got.target[i] # got.before[i]

(* C19: a field whose key is absent or null and that has no default tag   *)
(* causes no error and is not written: it keeps the value it had, nil     *)
(* for a pointer and the zero value for a value field of a fresh target.  *)
C19_NoDefaultNoWrite ==
    BindRan =>
        \A i \in DOMAIN got.fields :
            (Absent(i) /\ got.fields[i].def = <<>>) =>
                /\ ~ErrAt(i)
                /\ got.target[i] = got.before[i]
                /\ got.before[i] = Zero(got.fields[i].type)
                      => got.target[i] = Zero(got.fields[i].type)

(* A nil pointer field without default tag whose key maps to null is      *)
(* passed by an Unmarshal that succeeds.                                  *)
C19_Witness ==
    /\ BindRan
    /\ got.err = NoErr
    /\ \E i \in DOMAIN got.fields :
          /\ got.fields[i].tag \in DOMAIN got.values
          /\ Absent(i) /\ got.fields[i].def = <<>>
          /\ got.fields[i].type = "*int64"
          /\ got.target[i] = <<"nil", 0>>

(* The number n lies outside the range of the integer type t. *)
OutOfRange(n, t) ==
    CASE t \in DOMAIN SignedBits -> OverflowInt(n, SignedBits[t])
      [] t \in DOMAIN UnsignedBits -> n < 0 \/ OverflowUint(n, UnsignedBits[t])
      [] t = "*int64" -> OverflowInt(n, IntBits)
      [] OTHER -> FALSE

(* C20: numeric overflow in the binder is always an error: when the value *)
(* bound to an integer field is an integer, an unsigned integer or a      *)
(* float outside the range of the field's type, Unmarshal returns an      *)
(* error naming the field and the field is not set.                       *)
C20_OverflowIsAnError ==
    BindRan =>
        \A i \in DOMAIN got.fields :
            (/\ ~Absent(i) /\ Reached(i)
             /\ got.values[got.fields[i].tag][1] \in {"int", "int64", "uint64", "float"}
             /\ OutOfRange(got.values[got.fields[i].tag][2], got.fields[i].type))
            => ErrAt(i) /\ got.target[i] = got.before[i]

----------------------------------------------------------------------------
(* setNested on a map. *)

(* Segment-wise: path q is path p or a dotted prefix of it. *)
SegPrefix(q, p) ==
    LET a == Split(q)
        b == Split(p)
    IN  Len(a) <= Len(b) /\ SubSeq(b, 1, Len(a)) = a

(* The paths of one to three segments. *)
Paths3 == Paths \cup {p \o <<Dot>> \o k : p \in Paths \ Keys, k \in Keys}

(* The maps setNested is applied to and the values it stores. *)
SetTrees ==
    {EmptyMap, MapAB(IntV(1), IntV(2)), MapA(Null),
     MapA(MapAB(IntV(1), IntV(2))), MapA(MapA(MapB(IntV(1)))),
     MapA(MapAB(<<"seq", <<IntV(1)>>>>, MapA(IntV(2)))),
     MapAB(<<"seq", <<IntV(1)>>>>, MapB(IntV(2))),
     MapA(<<"anymap", KA :> IntV(1) @@ KB :> IntV(2)>>)}

SetVals == {IntV(9), Null, MapB(IntV(9))}

InitSet ==
    /\ \E t \in SetTrees :
          LET b == Build(<<>>, t)
          IN  /\ heap = b.h
              /\ cfgs = <<Cfg(b.h, b.v[2], "map", 0)>>
    /\ held = {}
    /\ steps = 0
    /\ loaded = NotLoaded
    /\ merged = NotMerged
    /\ calls = [t \in Threads |-> Idle]
    /\ frames = [t \in Threads |-> NoFrame]
    /\ got = NoCall

(* setNested(m, key, value), m being the map InitSet built. *)
SetNested(key, value) ==
    /\ LET b == Build(heap, value)
       IN  /\ heap' = setNested(b.h, cfgs[1].values, key, b.v)
           /\ got' = [op |-> "setNested", key |-> key, value |-> value,
                      before |-> Abs(heap, Ref(cfgs[1].values))]
    /\ UNCHANGED <<cfgs, held, steps, loaded, merged, calls, frames>>

(* One call is made. *)
NextSet ==
    /\ got = NoCall
    /\ \E key \in Paths3, value \in SetVals : SetNested(key, value)

SpecSet == InitSet /\ [][NextSet]_vars

(* C27: after setNested(m, p, v), p resolves over m to v, every proper    *)
(* prefix of p resolves to a mapping, and every path that is neither a    *)
(* prefix nor an extension of p resolves as before the call.              *)
C27_SetNestedLastWriteWins ==
    got.op = "setNested" =>
        LET m == cfgs[1].values
        IN  /\ Resolve(heap, m, got.key) = <<got.value, TRUE>>
            /\ \A q \in Paths3 :
                  (SegPrefix(q, got.key) /\ q # got.key) =>
                      /\ Resolve(heap, m, q)[2]
                      /\ Resolve(heap, m, q)[1][1] \in {"map", "anymap"}
            /\ \A r \in Paths3 :
                  (~SegPrefix(r, got.key) /\ ~SegPrefix(got.key, r)) =>
                      Resolve(heap, m, r) = TreeAt(got.before, r)

----------------------------------------------------------------------------
(* Dotted-key expansion: WithOverrides and EnvLoader.Load. *)

(* The override maps: dotted keys, one of them a prefix of another. *)
OvTrees ==
    {<<"map", f>> : f \in
        UNION {[K -> {IntV(3), IntV(4), MapA(IntV(5))}] :
                  K \in (SUBSET {KA, KB, KAB}) \ {{}}}}

(* The Handles WithOverrides is called on. *)
BaseTrees ==
    {EmptyMap, MapA(IntV(1)), MapAB(MapAB(IntV(1), IntV(2)), IntV(1)),
     MapA(<<"anymap", KA :> IntV(1) @@ KB :> IntV(2)>>),
     MapAB(Null, MapB(<<"seq", <<IntV(1), MapA(Null)>>>>)),
     MapAB(<<"ints", <<IntV(1)>>>>, MapA(<<"strs", <<StrV(<<"x">>)>>>>))}

(* c.WithOverrides(overrides) on the Handle at values, the overrides map  *)
(* being at address o and its keys visited in the order ord: the heap     *)
(* afterwards, the expanded map and the map of the new Handle.            *)
Overridden(h, values, o, ord) ==
    LET cp == deepCopyMap(h, values)
        expanded == expandDotKeys(cp.h, o, ord)
    IN  [h |-> mergeMaps(expanded.h, cp.a, expanded.a),
         expanded |-> expanded.a, values |-> cp.a]

(* strings.ReplaceAll(s, "__", ".") *)
RECURSIVE ReplaceAll(_)
ReplaceAll(s) ==
    IF Len(s) = 0 THEN s
    ELSE IF Len(s) >= 2 /\ s[1] = "_" /\ s[2] = "_"
         THEN <<Dot>> \o ReplaceAll(SubSeq(s, 3, Len(s)))
         ELSE <<s[1]>> \o ReplaceAll(Tail(s))

(* The prefix of the EnvLoader and the environments it reads: the         *)
(* NAME=value entries in the order os.Environ() gives them.               *)
EnvPrefix == <<"P", "_">>
EnvEntries ==
    {<<"P", "_", "A", "=", "1">>, <<"P", "_", "A", "_", "_", "B", "=", "2">>,
     <<"P", "_", "B", "=", "3">>, <<"Q", "_", "A", "=", "4">>, <<"P", "_", "B">>}
Environs == UNION {Perms(K) : K \in {S \in SUBSET EnvEntries : Cardinality(S) \in 1..3}}

(* EnvLoader.Load without auto type parsing, from entry i of env on, cfg  *)
(* being the map built so far.                                            *)
RECURSIVE EnvLoadFrom(_, _, _, _)
EnvLoadFrom(h, cfg, env, i) ==
    IF i > Len(env) THEN h
    ELSE LET e == env[i]
             eqs == {j \in DOMAIN e : e[j] = "="}
             eq == IF eqs = {} THEN 0 ELSE CHOOSE j \in eqs : \A x \in eqs : j <= x
             key == SubSeq(e, 1, eq - 1)
             value == SubSeq(e, eq + 1, Len(e))
             configKey == ReplaceAll(ToLower(SubSeq(key, Len(EnvPrefix) + 1, Len(key))))
         IN  IF Len(e) < Len(EnvPrefix) \/ SubSeq(e, 1, Len(EnvPrefix)) # EnvPrefix
             THEN EnvLoadFrom(h, cfg, env, i + 1)
             ELSE IF eq = 0 THEN EnvLoadFrom(h, cfg, env, i + 1)
             ELSE EnvLoadFrom(setNested(h, cfg, configKey, StrV(value)), cfg, env, i + 1)

EnvLoad(h, env) ==
    LET al == Alloc(h, EmptyMap)
    IN  [h |-> EnvLoadFrom(al.h, al.a, env, 1), a |-> al.a]

InitOv ==
    /\ \E t \in BaseTrees :
          LET b == Build(<<>>, t)
              r == deepCopyMap(b.h, b.v[2])
          IN  /\ heap = r.h
              /\ cfgs = <<Cfg(r.h, r.a, "FromMap", 0)>>
    /\ held = {}
    /\ steps = 0
    /\ loaded = NotLoaded
    /\ merged = NotMerged
    /\ calls = [t \in Threads |-> Idle]
    /\ frames = [t \in Threads |-> NoFrame]
    /\ got = NoCall

(* c2 := c.WithOverrides(o), o built by the caller, its keys visited in   *)
(* the order ord.                                                         *)
Override(o, ord) ==
    /\ LET b == Build(heap, o)
           r == Overridden(b.h, cfgs[1].values, b.v[2], ord)
       IN  /\ heap' = r.h
           /\ cfgs' = Append(cfgs, Cfg(r.h, r.values, "WithOverrides", 1))
           /\ got' = [op |-> "WithOverrides", o |-> o, ord |-> ord,
                      before |-> Abs(heap, Ref(cfgs[1].values)),
                      expanded |-> Abs(r.h, Ref(r.expanded))]
    /\ UNCHANGED <<held, steps, loaded, merged, calls, frames>>

(* FromEnv(prefix).Load() in the environment env. *)
LoadEnv(env) ==
    /\ LET r == EnvLoad(heap, env)
       IN  /\ heap' = r.h
           /\ got' = [op |-> "EnvLoad", env |-> env, res |-> Abs(r.h, Ref(r.a))]
    /\ UNCHANGED <<cfgs, held, steps, loaded, merged, calls, frames>>

(* c2 := FromMap(c.All()) *)
FromMapAll ==
    /\ LET all == deepCopyMap(heap, cfgs[1].values)
           r == deepCopyMap(all.h, all.a)
       IN  /\ heap' = r.h
           /\ cfgs' = Append(cfgs, Cfg(r.h, r.a, "FromMap", 0))
           /\ got' = [op |-> "FromMapAll", all |-> all.a]
    /\ UNCHANGED <<held, steps, loaded, merged, calls, frames>>

(* One call is made. *)
NextOv ==
    /\ got = NoCall
    /\ \/ \E o \in OvTrees : \E ord \in Perms(DOMAIN o[2]) : Override(o, ord)
       \/ \E env \in Environs : LoadEnv(env)
       \/ FromMapAll

SpecOv == InitOv /\ [][NextOv]_vars

(* The range of a sequence. *)
Range(s) == {s[i] : i \in DOMAIN s}

(* C29: dotted-key expansion is deterministic in its input set: the tree  *)
(* expandDotKeys builds for WithOverrides, and the tree EnvLoader.Load    *)
(* builds from the environment, is the same whatever the order in which   *)
(* the keys are visited.                                                  *)
C29_ExpansionOrderIndependent ==
    /\ got.op = "WithOverrides" =>
          \A ord \in Perms(DOMAIN got.o[2]) :
             LET b == Build(<<>>, got.o)
                 r == expandDotKeys(b.h, b.v[2], ord)
             IN  Abs(r.h, Ref(r.a)) = got.expanded
    /\ got.op = "EnvLoad" =>
          \A env \in Perms(Range(got.env)) :
             LET r == EnvLoad(<<>>, env) IN Abs(r.h, Ref(r.a)) = got.res

(* C25: the Handle c.WithOverrides(o) returns resolves each key k of o    *)
(* whose value is not a mapping, read as a dotted path, to o[k], and      *)
(* resolves every path that is neither a prefix nor an extension of a key *)
(* of o exactly as c does.                                                *)
C25_WithOverridesExpandsAndMerges ==
    got.op = "WithOverrides" =>
        LET new == cfgs[Len(cfgs)].values
            o == got.o[2]
        IN  /\ \A k \in DOMAIN o :
                  o[k][1] # "map" => Resolve(heap, new, k) = <<o[k], TRUE>>
            /\ \A r \in Paths3 :
                  (\A k \in DOMAIN o : ~SegPrefix(r, k) /\ ~SegPrefix(k, r)) =>
                      Resolve(heap, new, r) = TreeAt(got.before, r)

(* C24: snapshot round trip: the Handle FromMap(c.All()) resolves every   *)
(* path, the paths that do not resolve included, to the same value and    *)
(* found flag as c.                                                       *)
C24_SnapshotRoundTrip ==
    got.op = "FromMapAll" =>
        \A p \in Paths3 \cup {<<>>} :
            Resolve(heap, cfgs[2].values, p) = Resolve(heap, cfgs[1].values, p)

(* FromMap(c.All()) is built from a Handle holding a sequence and a       *)
(* nested null; the new Handle has a map of its own.                      *)
C24_Witness ==
    /\ got.op = "FromMapAll"
    /\ cfgs[2].values # cfgs[1].values
    /\ Resolve(heap, cfgs[2].values, KB \o <<Dot>> \o KB) =
          <<<<"seq", <<IntV(1), MapA(Null)>>>>, TRUE>>
    /\ Resolve(heap, cfgs[2].values, KA) = <<Null, TRUE>>


----------------------------------------------------------------------------
(* Unmarshal: collections, nested structs, floats and durations.          *)

(* The values a collection field meets under "a". *)
CollVals ==
    {<<"seq", <<IntV(1), IntV(2)>>>>, <<"seq", <<IntV(1), StrV(<<"x">>)>>>>,
     <<"seq", <<StrV(<<"3">>), IntV(9)>>>>, <<"seq", <<>>>>,
     <<"strs", <<StrV(<<"1">>), StrV(<<"2">>)>>>>, <<"strs", <<StrV(<<"x">>)>>>>,
     StrV(<<"1", ",", "2">>), StrV(<<"1", ",", " ", "x">>), StrV(<<"1", ",", " ", "2">>),
     <<"ints", <<IntV(1), IntV(2)>>>>,
     <<"map", KA :> IntV(1) @@ KB :> IntV(2)>>,
     <<"map", KA :> IntV(1) @@ KB :> StrV(<<"x">>)>>,
     <<"map", KA :> StrV(<<"x">>) @@ KB :> IntV(9)>>,
     EmptyMap,
     <<"anymap", KA :> IntV(1)>>}

(* Scalars the getters and the binder treat differently, and duration     *)
(* literals.                                                              *)
TimeVals ==
    {DurV(3), <<"float32", 2>>, StrV(<<"2", "m", "s">>), StrV(<<"0">>),
     StrV(<<"2", "s">>)}

(* The values a nested struct field meets under "b". *)
NestedVals ==
    {Null, EmptyMap, MapA(IntV(3)), MapA(StrV(<<"x">>)), MapB(IntV(1)),
     MapB(StrV(<<"x">>)), MapAB(IntV(1), IntV(1)), IntV(1)}

BindTrees2 ==
    {MapA(v) : v \in ScalarVals \cup TimeVals \cup CollVals}
        \cup {MapAB(v, w) : v \in {IntV(1), <<"seq", <<IntV(1), StrV(<<"x">>)>>>>,
                                   <<"seq", <<IntV(1), IntV(2)>>>>},
                            w \in NestedVals}
        \cup {MapB(w) : w \in NestedVals}

Structs2 ==
    {<<Field("A", KA, ta, <<>>), Field("B", KB, tb, db)>> :
        ta \in {"int8", "int", "int64", "uint64", "bool", "float64", "duration",
                "[]int8", "map[string]int8", "Inner", "*Inner"},
        tb \in {"int8", "[]int8", "Inner", "*Inner"},
        db \in {<<>>, <<<<"2">>>>}}

InitBind2 ==
    /\ \E t \in BindTrees2 :
          LET b == Build(<<>>, t)
              r == deepCopyMap(b.h, b.v[2])
          IN  /\ heap = r.h
              /\ cfgs = <<Cfg(r.h, r.a, "FromMap", 0)>>
    /\ held = {}
    /\ steps = 0
    /\ loaded = NotLoaded
    /\ merged = NotMerged
    /\ calls = [t \in Threads |-> Idle]
    /\ frames = [t \in Threads |-> NoFrame]
    /\ got = NoCall

(* One call is made. *)
NextBind2 ==
    /\ got = NoCall
    /\ \E key \in {<<>>, KA}, fields \in Structs2 :
          \E before \in Targets(fields) : Unmarshal(key, fields, before)

SpecBind2 == InitBind2 /\ [][NextBind2]_vars

----------------------------------------------------------------------------
(* Binding: collections. *)

(* Field i is a slice or a map. *)
IsCollection(i) == got.fields[i].type \in {"[]int8", "map[string]int8"}

(* The elements of the value v bound to a collection field of type t:     *)
(* the items of a sequence, the parts of a string, the values of a        *)
(* mapping; none, when v is nothing of the kind.                          *)
Elements(v, t) ==
    IF t = "[]int8"
    THEN CASE v[1] \in {"seq", "strs"} -> {v[2][i] : i \in DOMAIN v[2]}
           [] v[1] = "str" ->
                LET parts == SplitComma(v[2], 1, <<>>)
                IN  {StrV(TrimSpace(parts[i])) : i \in DOMAIN parts}
           [] OTHER -> {}
    ELSE IF v[1] = "map" THEN {v[2][k] : k \in DOMAIN v[2]} ELSE {}

(* No build converts e to an int8. *)
Unconvertible(e) == \A r \in convertToType(e, "int8") : r.err # ""

(* C21: a slice or map field whose value holds an element or entry that   *)
(* cannot be converted to the element type makes Unmarshal return an      *)
(* error naming the field; the field keeps the value it had rather than a *)
(* partial collection, and the fields declared after it are not           *)
(* processed.                                                             *)
C21_CollectionsBoundStrictly ==
    BindRan =>
        \A i \in DOMAIN got.fields :
            (/\ IsCollection(i) /\ ~Absent(i) /\ Reached(i)
             /\ \E e \in Elements(got.values[got.fields[i].tag], got.fields[i].type) :
                    Unconvertible(e))
                => /\ ErrAt(i)
                   /\ got.target[i] = got.before[i]
                   /\ \A j \in DOMAIN got.fields : j > i => got.target[j] = got.before[j]

(* A slice whose second element cannot be converted is bound to the first *)
(* field: the error names it, and the second field, whose key is absent   *)
(* and which carries a default, is left alone.                            *)
C21_Witness ==
    /\ BindRan
    /\ got.fields[1].type = "[]int8"
    /\ got.values = (KA :> <<"seq", <<IntV(1), StrV(<<"x">>)>>>>)
    /\ got.fields[2].def # <<>>
    /\ ErrAt(1)
    /\ got.target = got.before

----------------------------------------------------------------------------
(* Binding: nested structs. *)

(* Field i is a nested struct or a pointer to one. *)
IsNested(i) == got.fields[i].type \in {"Inner", "*Inner"}

(* The value the map bound holds for field i is a mapping without a       *)
(* non-null entry for the key of the first nested field.                  *)
MappingWithoutFirst(i) ==
    LET v == got.values[got.fields[i].tag]
    IN  /\ v[1] = "map"
        /\ InnerFields[1].tag \notin DOMAIN v[2] \/ v[2][InnerFields[1].tag] = Null

(* C30: a nested struct field without default tag whose key is absent or  *)
(* null causes no error and is left as it was, its nested fields          *)
(* untouched, their defaults not applied, a nil pointer still nil; when   *)
(* the key maps to a mapping, even an empty one, and the call succeeds,   *)
(* the nested field whose key is absent there holds its default; when the *)
(* key maps to anything else the call fails and the field is left as it   *)
(* was.                                                                   *)
C30_NestedDefaultsNeedMapping ==
    BindRan =>
        \A i \in DOMAIN got.fields :
            IsNested(i) =>
                /\ (Absent(i) /\ got.fields[i].def = <<>>)
                      => ~ErrAt(i) /\ got.target[i] = got.before[i]
                /\ (~Absent(i) /\ MappingWithoutFirst(i) /\ got.err = NoErr)
                      => /\ got.target[i][1] =
                                (IF got.fields[i].type = "Inner" THEN "struct" ELSE "ptrs")
                         /\ got.target[i][2][1] = IntV(2)
                /\ (~Absent(i) /\ got.values[got.fields[i].tag][1] # "map" /\ Reached(i))
                      => ErrAt(i) /\ got.target[i] = got.before[i]

(* A nil pointer to a struct whose key is absent stays nil in a call that *)
(* succeeds and binds the field before it.                                *)
C30_Witness ==
    /\ BindRan
    /\ got.err = NoErr
    /\ got.fields[2].type = "*Inner"
    /\ got.fields[2].def = <<>>
    /\ got.before[2] = <<"nil", 0>>
    /\ got.fields[2].tag \notin DOMAIN got.values
    /\ got.target[2] = <<"nil", 0>>
    /\ got.target[1] # got.before[1]

----------------------------------------------------------------------------
(* Binding against the typed getters. *)

(* GetDuration on the (v, ok) that find returns: the outcomes a build can *)
(* produce.                                                               *)
GetDurationOf(v, ok, defs) ==
    IF ~ok THEN {getFirst(defs, 0)}
    ELSE CASE v[1] = "dur" -> {v[2]}
           [] v[1] = "str" ->
                 LET r == ParseDuration(v[2])
                 IN  IF r.ok THEN {r.n} ELSE {getFirst(defs, 0)}
           [] v[1] \in {"int", "int64"} -> {WrapInt64(v[2] * Millisecond)}
           [] v[1] = "float" -> FloatToInt64(ToFloat(v[2] * Millisecond))
           [] OTHER -> {getFirst(defs, 0)}

(* The field values the typed getter of type t can return for a stored    *)
(* value v as the coerced value, whatever the caller default is; the      *)
(* empty set when the getter falls back to the default.                   *)
GetterAccepts(t, v) ==
    LET Acc(G(_, _, _)) ==
            {n \in G(v, TRUE, <<>>) : \A d \in IntDefs : n \in G(v, TRUE, d)}
    IN  CASE t = "int" -> {IntV(n) : n \in Acc(GetIntOf)}
          [] t = "int64" -> {IntV(n) : n \in Acc(GetInt64Of)}
          [] t = "uint64" -> {IntV(n) : n \in Acc(GetUint64Of)}
          [] t = "duration" -> {DurV(n) : n \in Acc(GetDurationOf)}
          [] t = "float64" ->
                IF toFloat64(v).ok THEN {FloatV(toFloat64(v).n)} ELSE {}
          [] t = "bool" -> IF toBool(v).err = "" THEN {toBool(v).val} ELSE {}

(* The scalar types both the binder and a typed getter produce. *)
CoercedTypes == {"bool", "int", "int64", "uint64", "float64", "duration"}

(* C28: for a field of type bool, int, int64, uint64, float64 or duration *)
(* whose key holds a non-null value, Unmarshal succeeds on the field      *)
(* exactly when the typed getter of that type returns a coerced value     *)
(* rather than its default, and the field is set to that value.           *)
C28_BinderAgreesWithGetters ==
    BindRan =>
        \A i \in DOMAIN got.fields :
            (got.fields[i].type \in CoercedTypes /\ ~Absent(i) /\ Reached(i)) =>
                LET acc == GetterAccepts(got.fields[i].type, got.values[got.fields[i].tag])
                IN  IF acc = {} THEN ErrAt(i)
                    ELSE ~ErrAt(i) /\ got.target[i] \in acc

----------------------------------------------------------------------------
(* Validation rules. *)

(* A rule passed: the nil error. *)
NoViolation == <<"ok">>

(* The error a rule returns: the key and what is wrong. *)
Violation(key, what) == <<"violation", key, what>>

(* regexp.MatchString(pattern, s) on the patterns of the model: "(" does  *)
(* not compile, any other pattern is literal text matched anywhere in s.  *)
MatchString(pattern, s) ==
    IF pattern = <<"(">> THEN [err |-> TRUE, matched |-> FALSE]
    ELSE [err |-> FALSE, matched |-> Contains(s, pattern)]

(* Required(key) applied to the Handle of map values *)
Required(h, values, key) ==
    IF ~find(h, values, key)[2] THEN Violation(key, "required key is missing")
    ELSE NoViolation

(* An InRange that takes an absent key for a value that is not a number. *)
InRangeStrict(h, values, key, min, max) ==
    LET r == find(h, values, key)
        f == toFloat64(IF r[2] THEN r[1] ELSE Null)
    IN  IF ~f.ok THEN Violation(key, "value is not a number")
        ELSE IF f.n < min \/ f.n > max THEN Violation(key, "out of range")
        ELSE NoViolation

(* InRange(key, min, max) applied to the Handle *)
InRange(h, values, key, min, max) ==
    LET r == find(h, values, key)
    IN  IF ~r[2] THEN NoViolation
        ELSE LET f == toFloat64(r[1])
             IN  IF ~f.ok THEN Violation(key, "value is not a number")
                 ELSE IF f.n < min \/ f.n > max THEN Violation(key, "out of range")
                 ELSE NoViolation

(* OneOf(key, allowed...) applied to the Handle *)
OneOf(h, values, key, allowed) ==
    LET r == find(h, values, key)
    IN  IF ~r[2] THEN NoViolation
        ELSE IF \E i \in DOMAIN allowed : GetStringOf(r[1], r[2], <<>>) = allowed[i]
        THEN NoViolation
        ELSE Violation(key, "not one of")

(* MatchRegex(key, pattern) applied to the Handle *)
MatchRegex(h, values, key, pattern) ==
    LET r == find(h, values, key)
    IN  IF ~r[2] THEN NoViolation
        ELSE LET m == MatchString(pattern, GetStringOf(r[1], r[2], <<>>))
             IN  IF m.err THEN Violation(key, "invalid regex")
                 ELSE IF ~m.matched THEN Violation(key, "does not match pattern")
                 ELSE NoViolation

(* Custom(key, fn) applied to the Handle, fn refusing nil ("set") or      *)
(* everything ("never").                                                  *)
Custom(h, values, key, fn) ==
    LET r == find(h, values, key)
        v == IF r[2] THEN r[1] ELSE Null
    IN  IF fn = "never" \/ v = Null THEN Violation(key, fn) ELSE NoViolation

(* rule(c) for a rule value *)
Apply(h, values, rule) ==
    CASE rule.kind = "Required" -> Required(h, values, rule.key)
      [] rule.kind = "InRange" -> InRange(h, values, rule.key, rule.min, rule.max)
      [] rule.kind = "OneOf" -> OneOf(h, values, rule.key, rule.allowed)
      [] rule.kind = "MatchRegex" -> MatchRegex(h, values, rule.key, rule.pattern)
      [] rule.kind = "Custom" -> Custom(h, values, rule.key, rule.fn)

(* A loop that stops at the first rule that fails. *)
RECURSIVE ValidateFrom(_, _, _, _, _, _)
ValidateFirst(h, values, rules, i, outs, violations) ==
    IF i > Len(rules) \/ violations # <<>>
    THEN [outs |-> outs, violations |-> violations]
    ELSE LET e == Apply(h, values, rules[i])
         IN  ValidateFrom(h, values, rules, i + 1, Append(outs, e),
                          IF e # NoViolation THEN Append(violations, e) ELSE violations)

(* The loop of Validate from rule i on: outs is what each rule evaluated  *)
(* returned, violations the errors appended.                               *)
ValidateFrom(h, values, rules, i, outs, violations) ==
    IF i > Len(rules) THEN [outs |-> outs, violations |-> violations]
    ELSE LET e == Apply(h, values, rules[i])
         IN  ValidateFrom(h, values, rules, i + 1, Append(outs, e),
                          IF e # NoViolation THEN Append(violations, e) ELSE violations)

(* The rules of the model and the lists of rules passed to Validate. *)
MaxRules == 2

Rules ==
    UNION {{[kind |-> "Required", key |-> k],
            [kind |-> "InRange", key |-> k, min |-> 1, max |-> 5],
            [kind |-> "OneOf", key |-> k, allowed |-> <<<<"3">>, <<"x">>>>],
            [kind |-> "MatchRegex", key |-> k, pattern |-> <<"x">>],
            [kind |-> "MatchRegex", key |-> k, pattern |-> <<"(">>],
            [kind |-> "Custom", key |-> k, fn |-> "set"]} : k \in {KA, KB}}

RuleLists == UNION {[1..n -> Rules] : n \in 0..MaxRules}

(* c.Validate(rules...); the rules that format the value meet scalars     *)
(* only.                                                                  *)
Validate(rules) ==
    /\ \A i \in DOMAIN rules :
          rules[i].kind \in {"OneOf", "MatchRegex"}
              => IsScalar(find(heap, cfgs[1].values, rules[i].key)[1])
    /\ LET r == ValidateFrom(heap, cfgs[1].values, rules, 1, <<>>, <<>>)
       IN  got' = [op |-> "Validate", rules |-> rules, outs |-> r.outs,
                   res |-> IF Len(r.violations) > 0
                           THEN <<"ValidationError", r.violations>>
                           ELSE NoErr]
    /\ UNCHANGED <<heap, cfgs, held, steps, loaded, merged, calls, frames>>

(* One call is made. *)
NextVal ==
    /\ got = NoCall
    /\ \E rules \in RuleLists : Validate(rules)

SpecVal == InitBind /\ [][NextVal]_vars

----------------------------------------------------------------------------
(* Validation: accumulation and tolerance. *)

(* Rule i of the call fails on the Handle. *)
Fails(i) == Apply(heap, cfgs[1].values, got.rules[i]) # NoViolation

(* The indexes of the failing rules among the first n, in rule order. *)
RECURSIVE FailingUpTo(_)
FailingUpTo(n) ==
    IF n = 0 THEN <<>>
    ELSE IF Fails(n) THEN Append(FailingUpTo(n - 1), n) ELSE FailingUpTo(n - 1)

(* C22: Validate evaluates every rule once, in the order given, whatever  *)
(* the earlier rules returned; it returns nil when no rule fails, and     *)
(* otherwise a ValidationError whose Violations holds one entry per       *)
(* failing rule, in rule order.                                           *)
C22_ValidateAccumulates ==
    got.op = "Validate" =>
        LET failing == FailingUpTo(Len(got.rules))
        IN  /\ Len(got.outs) = Len(got.rules)
            /\ \A i \in DOMAIN got.rules :
                  got.outs[i] = Apply(heap, cfgs[1].values, got.rules[i])
            /\ (failing = <<>>) <=> (got.res = NoErr)
            /\ failing # <<>> =>
                  /\ got.res[1] = "ValidationError"
                  /\ Len(got.res[2]) = Len(failing)
                  /\ \A j \in DOMAIN failing :
                        /\ got.res[2][j][2] = got.rules[failing[j]].key
                        /\ got.res[2][j] = got.outs[failing[j]]

(* A range rule on a value out of range and a presence rule on an absent  *)
(* key yield two violations, in that order.                               *)
C22_Witness ==
    /\ got.op = "Validate"
    /\ Len(got.rules) = 2
    /\ got.rules[1].kind = "InRange" /\ got.rules[2].kind = "Required"
    /\ got.res[1] = "ValidationError"
    /\ Len(got.res[2]) = 2
    /\ got.res[2][1][3] = "out of range"
    /\ got.res[2][2][3] = "required key is missing"

(* The key of rule i resolves on the Handle. *)
Resolves(i) == find(heap, cfgs[1].values, got.rules[i].key)[2]

(* C23: a range, membership or pattern rule whose key does not resolve    *)
(* reports no violation, whatever its bounds, allowed set or pattern; a   *)
(* presence rule reports a violation exactly when its key does not        *)
(* resolve.                                                               *)
C23_TolerantUnlessRequired ==
    got.op = "Validate" =>
        \A i \in DOMAIN got.rules :
            /\ (got.rules[i].kind \in {"InRange", "OneOf", "MatchRegex"} /\ ~Resolves(i))
                  => got.outs[i] = NoViolation
            /\ got.rules[i].kind = "Required"
                  => ((got.outs[i] # NoViolation) <=> ~Resolves(i))

(* A pattern rule with a pattern that does not compile and a presence     *)
(* rule on the same absent key: only the presence rule is violated.       *)
C23_Witness ==
    /\ got.op = "Validate"
    /\ Len(got.rules) = 2
    /\ got.rules[1].kind = "MatchRegex" /\ got.rules[1].pattern = <<"(">>
    /\ got.rules[2].kind = "Required"
    /\ got.rules[1].key = got.rules[2].key
    /\ ~Resolves(1)
    /\ got.outs[1] = NoViolation
    /\ got.res[1] = "ValidationError" /\ Len(got.res[2]) = 1

----------------------------------------------------------------------------
(* The file loaders. *)

(* filepath.Separator *)
Sep == "/"

(* A path: absolute or relative, and its elements. *)
PathOf(abs, segs) == [abs |-> abs, segs |-> segs]

(* filepath.Clean on the elements of an absolute path: ".." removes the   *)
(* element before it, and is dropped at the root.                         *)
RECURSIVE CleanFrom(_, _, _)
CleanFrom(segs, i, out) ==
    IF i > Len(segs) THEN out
    ELSE IF segs[i] = ".."
    THEN CleanFrom(segs, i + 1, IF out = <<>> THEN out ELSE SubSeq(out, 1, Len(out) - 1))
    ELSE CleanFrom(segs, i + 1, Append(out, segs[i]))

(* The string of an absolute path of elements segs, each one character. *)
RECURSIVE JoinSegs(_)
JoinSegs(segs) ==
    IF segs = <<>> THEN <<>> ELSE <<Sep, Head(segs)>> \o JoinSegs(Tail(segs))

(* filepath.Clean(filepath.Abs(p)) in working directory wd *)
AbsClean(p, wd) ==
    LET segs == CleanFrom(IF p.abs THEN p.segs ELSE wd.segs \o p.segs, 1, <<>>)
    IN  IF segs = <<>> THEN <<Sep>> ELSE JoinSegs(segs)

(* strings.HasPrefix(s, prefix) *)
HasPrefix(s, prefix) ==
    Len(prefix) <= Len(s) /\ SubSeq(s, 1, Len(prefix)) = prefix

(* No base path was set. *)
NoBase == PathOf(FALSE, <<>>)

(* resolveSecurePath(path, basePath) in working directory wd *)
resolveSecurePath(path, basePath, wd) ==
    LET absBase == AbsClean(IF basePath = NoBase THEN wd ELSE basePath, wd)
        absPath == AbsClean(path, wd)
    IN  IF ~HasPrefix(absPath, Append(absBase, Sep))
        THEN [err |-> "outside allowed base", path |-> <<>>]
        ELSE [err |-> "", path |-> absPath]

(* normalizeMap / normalizeValue on a tree *)
RECURSIVE normalizeValue(_)
normalizeValue(t) ==
    CASE t[1] \in {"anymap", "map"} -> <<"map", [k \in DOMAIN t[2] |-> normalizeValue(t[2][k])]>>
      [] t[1] = "seq" -> <<"seq", [i \in DOMAIN t[2] |-> normalizeValue(t[2][i])]>>
      [] OTHER -> t

normalizeMap(t) == <<"map", [k \in DOMAIN t[2] |-> normalizeValue(t[2][k])]>>

(* What the file system holds at a path: nothing, a directory, a file     *)
(* that cannot be read, a file that does not parse, a file that parses.   *)
FileStates == {"missing", "dir", "unreadable", "bad", "good"}

(* fileExists(path) *)
fileExists(fs, path) == fs[path] \notin {"missing", "dir"}

(* The tree a file that parses decodes to. *)
Decoded(path) == <<"map", KA :> <<"anymap", KB :> StrV(path)>>>>

(* The errors of Load. *)
ParseError(format) == <<"parse", format>>
NoSource(details) == <<"LoadError", "ErrNoConfigSource", details>>

RECURSIVE FileLoadFrom(_, _, _, _, _, _, _)

(* The loop of Load over the candidates, details holding one entry per    *)
(* candidate passed over.                                                 *)
FileLoadFrom(format, paths, basePath, optional, wd, fs, details) ==
    LET i == Len(details) + 1
    IN  IF i > Len(paths)
        THEN IF optional THEN [err |-> NoErr, tree |-> EmptyMap]
             ELSE [err |-> NoSource(details), tree |-> Null]
        ELSE LET r == resolveSecurePath(paths[i], basePath, wd)
             IN  IF r.err # ""
                 THEN FileLoadFrom(format, paths, basePath, optional, wd, fs,
                                   Append(details, <<paths[i], r.err>>))
                 ELSE IF ~fileExists(fs, r.path)
                 THEN FileLoadFrom(format, paths, basePath, optional, wd, fs,
                                   Append(details, <<paths[i], "file not found">>))
                 ELSE IF fs[r.path] = "unreadable"
                 THEN FileLoadFrom(format, paths, basePath, optional, wd, fs,
                                   Append(details, <<paths[i], "read error">>))
                 ELSE IF fs[r.path] = "bad"
                 THEN [err |-> ParseError(format), tree |-> Null]
                 ELSE [err |-> NoErr, tree |-> normalizeMap(Decoded(r.path))]

(* The candidates, base paths and working directories of the model. *)
MaxPaths == 2

Candidates ==
    {PathOf(FALSE, <<"x">>), PathOf(FALSE, <<"y">>), PathOf(TRUE, <<"w", "x">>),
     PathOf(FALSE, <<"..", "e", "x">>)}

CandidateLists == UNION {[1..n -> Candidates] : n \in 1..MaxPaths}

BasePaths == {NoBase, PathOf(TRUE, <<>>), PathOf(TRUE, <<"w">>)}

WorkDirs == {PathOf(TRUE, <<>>), PathOf(TRUE, <<"w">>)}

(* l.Load() for a yamlLoader or a jsonLoader, in working directory wd on  *)
(* the file system fs.                                                    *)
FileLoad(format, paths, basePath, optional, wd, fs) ==
    /\ LET r == FileLoadFrom(format, paths, basePath, optional, wd, fs, <<>>)
       IN  got' = [op |-> "FileLoad", format |-> format, paths |-> paths,
                   basePath |-> basePath, optional |-> optional, wd |-> wd,
                   fs |-> fs, err |-> r.err, tree |-> r.tree]
    /\ UNCHANGED <<heap, cfgs, held, steps, loaded, merged, calls, frames>>

(* One loader is run. *)
NextLoad ==
    /\ got = NoCall
    /\ \E format \in {"yaml", "json"}, paths \in CandidateLists, basePath \in BasePaths,
          optional \in BOOLEAN, wd \in WorkDirs :
          \E fs \in [{AbsClean(paths[i], wd) : i \in DOMAIN paths} -> FileStates] :
              FileLoad(format, paths, basePath, optional, wd, fs)

SpecLoad == Init /\ [][NextLoad]_vars

----------------------------------------------------------------------------
(* File loaders: fallback. *)

(* The elements of the cleaned absolute form of path p of the call. *)
SegsOf(p) == CleanFrom(IF p.abs THEN p.segs ELSE got.wd.segs \o p.segs, 1, <<>>)

(* The base directory of the call: the one set, else the working          *)
(* directory.                                                             *)
BaseOf == IF got.basePath = NoBase THEN got.wd ELSE got.basePath

(* Candidate i lies inside the base directory. *)
Inside(i) ==
    LET b == SegsOf(BaseOf)
        p == SegsOf(got.paths[i])
    IN  Len(b) < Len(p) /\ SubSeq(p, 1, Len(b)) = b

(* Candidate i lies inside the base directory, exists and is readable. *)
Usable(i) ==
    Inside(i) /\ got.fs[AbsClean(got.paths[i], got.wd)] \in {"bad", "good"}

(* C26: a file loader tries its candidates in order and loads the first   *)
(* one that lies inside the base directory, exists and is readable; when  *)
(* that file does not parse, the parse error of the format is returned    *)
(* and no later candidate is tried; when no candidate is usable the       *)
(* loader returns an empty map and no error if optional, and otherwise a  *)
(* LoadError that unwraps to ErrNoConfigSource and holds one detail per   *)
(* candidate, in candidate order.                                         *)
C26_FileLoaderFallsBack ==
    got.op = "FileLoad" =>
        IF \E i \in DOMAIN got.paths : Usable(i)
        THEN LET first == CHOOSE i \in DOMAIN got.paths :
                              Usable(i) /\ \A j \in 1..(i - 1) : ~Usable(j)
                 file == AbsClean(got.paths[first], got.wd)
             IN  IF got.fs[file] = "good"
                 THEN got.err = NoErr /\ got.tree = <<"map", KA :> <<"map", KB :> StrV(file)>>>>
                 ELSE got.err = ParseError(got.format)
        ELSE IF got.optional THEN got.err = NoErr /\ got.tree = EmptyMap
        ELSE /\ got.err[1] = "LoadError" /\ got.err[2] = "ErrNoConfigSource"
             /\ Len(got.err[3]) = Len(got.paths)
             /\ \A i \in DOMAIN got.paths : got.err[3][i][1] = got.paths[i]
====
